---- MODULE Spec2Model ----
(***************************************************************************)
(* Deployment control plane of remote_build: the concurrency gate, the     *)
(* deployment API handlers (create, rollback, cancel), the background      *)
(* deployment task (execute_deployment / DeploymentService) and the        *)
(* rollback task (execute_rollback / RollbackService).                     *)
(*                                                                         *)
(* Scheduling as in the code: API handlers and rollback tasks run on the   *)
(* main event loop; every deployment task runs in a thread of its own     *)
(* (BackgroundTasks, with a private event loop).  The shared state is the  *)
(* deployments table, the audit log and the gate's in-flight set.          *)
(***************************************************************************)
EXTENDS Integers, FiniteSets, Sequences, TLC

\* Bounds of the stage-machine scenario (Spec): rows created, cancel requests
\* accepted, rows the store loses before their task starts.
MaxDeployments == 1
MaxCancels == 2
MaxRowLoss == 1
\* Bounds of the admission scenario (AdmissionSpec): rows created, cancel
\* requests accepted, and the capacity the gate is constructed with.
AdmissionRows == 3
AdmissionCancels == 1
AdmissionCapacity == 1
\* _concurrency_manager = DeploymentConcurrencyManager(max_concurrent=3)
DefaultMaxConcurrent == 3

\* Row 1 is a deployment of an earlier run; the rows created are 2, 3, ...
Ids == 1..(1 + (IF MaxDeployments > AdmissionRows THEN MaxDeployments
                ELSE AdmissionRows))

None == "None"
NoRow == [status |-> "NoRow"]

\* The statuses cancel_deployment refuses to cancel.
Terminal == {"SUCCESS", "FAILED", "CANCELLED"}

\* DeploymentType members the services and the API refer to.
DeploymentType == {"FULL", "RESTART_ONLY"}

QueuedMessage == "Deployment queued: maximum concurrent deployments reached"

VARIABLES
    deployments,          \* the deployments table: id -> row, NoRow when absent
    next_id,              \* the autoincrement primary key of the table
    audit_logs,           \* create_audit_log records: <<action, resource_id>>
    max_concurrent,       \* DeploymentConcurrencyManager.max_concurrent
    running_deployments,  \* DeploymentConcurrencyManager._running_deployments
    pc,                   \* position of each deployment's background task
    cancelled,            \* DeploymentService._cancelled of each task
    cancel_requests,      \* cancel requests accepted so far
    rows_lost,            \* rows the store has lost so far
    limits,               \* the scenario: what the environment may do
    gate_lock,            \* DeploymentConcurrencyManager._lock: its holder, or 0
    caller                \* the calls in progress on the gate, one per caller

VARIABLES
    server_groups,        \* deployment.server_groups: groups of Server rows
    project,              \* the project's script paths and the log verbosity
    loop,                 \* locals of the server loop the task is running
    contacted,            \* what was done to servers: <<operation, name>>
    failures              \* what servers answered amiss: "script_failed", a
                          \* restart script that exited non-zero;
                          \* "probe_failed", a probe that returned false or
                          \* raised
VARIABLES
    remote                \* the frontend step on one server: its place, the
                          \* remote directories, the commands it issued

\* The servers of a deployment and the loop over them (ServerSpec).
server_vars == <<server_groups, project, loop, contacted, failures>>
\* What the orchestrator and the gate scenarios leave alone.
VARIABLES
    log_buffer,           \* a LogBuffer: buffer, _subscribers, their queues,
                          \* the holder of _lock
    log_pc                \* the threads that use it: the deployment task in
                          \* append, the subscribers in subscribe
VARIABLES
    log_buffers,          \* _log_buffers: the ids that have a LogBuffer
    batch_writer,         \* the BatchLogWriter of a task's DeploymentLogger
    deployment_logs,      \* the deployment_logs table: its rows, by id
    event_loop            \* the event loop of a task's thread: where the
                          \* coroutine stands, the tasks created on it
\* The logger of a deployment task and what it writes to (WriterSpec).
writer_vars == <<batch_writer, deployment_logs, event_loop>>
log_vars == <<log_buffer, log_pc, writer_vars>>
VARIABLES
    poller                \* a client polling GET /api/deployments/{id}: the
                          \* since_id it will send, what it has received
VARIABLES
    response              \* the last POST answered: what was asked, the
                          \* status code of the answer
VARIABLES
    artifacts_dir         \* settings.artifacts_dir and the
                          \* deployment_artifacts table: the files, the
                          \* records, what the last build did
VARIABLES
    workspace             \* the files of the Git stages of one task: the
                          \* credential helpers, SSH keys, clones, work_dir
VARIABLES
    probe                 \* one HealthCheckService.check: its configuration,
                          \* the turn of its retry loop, what it has done
VARIABLES
    builder               \* one BuildService: its settings, the install
                          \* command it ran, its result
VARIABLES
    buffer_map            \* _log_buffers for one deployment id, the
                          \* LogBuffer objects made for it, who holds which
VARIABLES
    repository            \* the branch of the project on the remote, the
                          \* clones of one FULL deployment, what it recorded
                          \* and what it built
\* The parts of a task that are taken alone, each in a scenario of its own.
unit_vars == <<workspace, probe, builder, buffer_map, repository>>
\* What only the scenarios of single requests and builds touch.
request_vars == <<poller, response, artifacts_dir, unit_vars>>
\* What a task leaves alone while it creates or removes its LogBuffer.
task_detail == <<server_vars, remote, log_vars, request_vars>>
detail_vars == <<task_detail, log_buffers>>

\* The gate object.
gate_state == <<max_concurrent, running_deployments>>
\* The callers of the gate taken alone (GateSpec).
gate_vars == <<gate_lock, caller>>
\* The orchestrator: table, audit log, tasks, environment counters.
orch_vars == <<deployments, next_id, audit_logs, pc, cancelled,
               cancel_requests, rows_lost, limits>>

vars == <<orch_vars, gate_state, gate_vars, detail_vars>>

----------------------------------------------------------------------------
(* Concurrency gate *)

\* A gate whose capacity test is off by one.
acquire_admits_off_by_one(S) == ~(Cardinality(S) > max_concurrent)

\* acquire: the check made under the lock.
acquire_admits(S) == ~(Cardinality(S) >= max_concurrent)

\* acquire: the in-flight set after the call for deployment d.
acquire(S, d) == IF acquire_admits(S) THEN S \cup {d} ELSE S

\* A release that discards nothing.
release_keeps(S, d) == S

\* A release that frees a slot whether or not d holds one.
release_frees_one(S, d) ==
    IF d \in S \/ S = {} THEN S \ {d}
    ELSE S \ {CHOOSE e \in S : \A f \in S : e <= f}

\* release: discard d from the in-flight set.
release(S, d) == S \ {d}

----------------------------------------------------------------------------
(* Status and progress *)

Min(a, b) == IF a < b THEN a ELSE b

progress_map(s) ==
    CASE s = "PENDING" -> 0
      [] s = "CLONING" -> 10
      [] s = "BUILDING" -> 30
      [] s = "UPLOADING" -> 60
      [] s = "DEPLOYING" -> 80
      [] s = "RESTARTING" -> 90
      [] s = "HEALTH_CHECKING" -> 95
      [] s = "SUCCESS" -> 100
      [] s = "FAILED" -> 0
      [] s = "CANCELLED" -> 0
      [] OTHER -> 0

\* DeploymentService._update_status on the task's row object.
update_status(row, s, msg) ==
    [row EXCEPT !.status = s,
                !.current_step = s,
                !.progress = progress_map(s),
                !.error_message = IF msg # None THEN msg ELSE @]

\* DeploymentService._handle_cancel.
handle_cancel(row) == update_status(row, "CANCELLED", None)

\* A freshly inserted Deployment row (column defaults of the table).
new_row(type, from, hc) ==
    [status |-> "PENDING", progress |-> 0, current_step |-> None,
     error_message |-> None, deployment_type |-> type, rollback_from |-> from,
     health_check_enabled |-> hc, artifacts |-> FALSE]

Exists(d) == deployments[d] # NoRow

\* The main event loop is held by a rollback task from its first step to its
\* end: the task never yields, and its SSH calls block the loop.
LoopFree == \A d \in Ids : pc[d] \notin {"rb_running", "rb_deploying"}

\* The gate taken alone (GateSpec): coroutines calling acquire and release
\* concurrently.  Ids 1..GateHeld may be in flight from the start; caller c
\* acquires the fresh id GateHeld + c.
GateCallers == 3
GateHeld == 2
GateCapacity == 2
Callers == 1..GateCallers
HeldIds == 1..GateHeld
own_id(c) == GateHeld + c
GateIds == HeldIds \cup {own_id(c) : c \in Callers}
IdleCaller == [pc |-> "idle", op |-> None, id |-> 0, result |-> None]

\* The table holds one deployment of an earlier run, which succeeded and left
\* its artifact record: a state the actions below reach from an empty table.
earlier_row ==
    [update_status(new_row("FULL", 0, FALSE), "SUCCESS", None)
        EXCEPT !.artifacts = TRUE]

InitOrch(lim, cap) ==
    /\ deployments = [d \in Ids |-> IF d = 1 THEN earlier_row ELSE NoRow]
    /\ next_id = 2
    /\ audit_logs = {<<"DEPLOYMENT_CREATE", 1>>}
    /\ max_concurrent = cap
    /\ running_deployments = {}
    /\ pc = [d \in Ids |-> IF d = 1 THEN "done" ELSE "none"]
    /\ cancelled = [d \in Ids |-> FALSE]
    /\ cancel_requests = 0
    /\ rows_lost = 0
    /\ limits = lim
    /\ gate_lock = 0
    /\ caller = [c \in Callers |-> IdleCaller]

\* No server group is selected, no server loop runs, nothing is logged.
NoProject == [restart_script_path |-> FALSE,
              restart_only_script_path |-> FALSE, verbosity |-> "minimal"]
StartLoop == [cursor |-> <<1, 1>>, failed_servers |-> <<>>,
              all_passed |-> TRUE]
NoRemote == [step |-> "idle", target |-> "absent", backup |-> FALSE,
             zip |-> FALSE, backup_exists |-> FALSE, existed |-> FALSE,
             stderr |-> "", issued |-> <<>>]
\* A bound of the log scenario: the LogBuffer has no subscriber and no entry.
MaxSubscribers == 2
Subscribers == 1..MaxSubscribers
NoLogBuffer == [buffer |-> <<>>, subscribers |-> {},
                queues |-> [s \in Subscribers |-> <<>>], lock |-> 0]
NoLogThreads == [appender |-> "idle", entry |-> 0,
                 subscribe |-> [s \in Subscribers |-> "idle"],
                 mutated |-> [s \in Subscribers |-> FALSE],
                 snapshot |-> [s \in Subscribers |-> <<>>],
                 later |-> [s \in Subscribers |-> <<>>]]
NoPoller == [since_id |-> <<>>, polls |-> 0, asked |-> <<>>, logs |-> <<>>,
             received |-> <<>>]
NoResponse == [endpoint |-> "none", source |-> 0, project |-> "absent",
               groups |-> <<>>, code |-> 0]
NoArtifacts == [files |-> {}, records |-> {}, clock |-> 0, built |-> <<>>,
                deleted |-> {}, failed |-> {}, content |-> {},
                threads |-> <<>>]
NoWorkspace == [id |-> 0, pc |-> "idle", stage |-> "none", auth |-> "none",
                files |-> {}]
NoProbe == [pc |-> "idle", type |-> "none", retries |-> 0, attempt |-> 0,
            done |-> <<>>, result |-> "none"]
NoBuilder == [pc |-> "idle", auto_install |-> TRUE, install_script |-> "None",
              project_type |-> "frontend", installed |-> "None",
              install_exit |-> 0, build_exit |-> 0, output_exists |-> FALSE,
              status |-> "none"]
MaxStreams == 2
BufferCallers == 0..MaxStreams
NoBufferMap == [entry |-> 0, made |-> 0, task |-> "pending",
                pc |-> [c \in BufferCallers |-> "idle"],
                buffer |-> [c \in BufferCallers |-> 0]]
\* The branch has one commit; nothing is cloned, recorded or built.
NoRepository == [head |-> 1, pc |-> "idle", repo |-> 0, commit_hash |-> <<>>,
                 commit_message |-> <<>>, source |-> 0, built |-> 0]
UnitsIdle ==
    /\ repository = NoRepository
    /\ workspace = NoWorkspace
    /\ probe = NoProbe
    /\ builder = NoBuilder
    /\ buffer_map = NoBufferMap
RequestsIdle ==
    /\ poller = NoPoller
    /\ response = NoResponse
    /\ artifacts_dir = NoArtifacts
    /\ UnitsIdle
NoBatchWriter == [pending_logs |-> <<>>]
IdleLoop == [pc |-> "running", ready |-> <<>>, waiting |-> <<>>, calls |-> 0,
             clock |-> 0]
LogIdle ==
    /\ log_buffer = NoLogBuffer
    /\ log_pc = NoLogThreads
    /\ log_buffers = {}
    /\ batch_writer = NoBatchWriter
    /\ deployment_logs = <<>>
    /\ event_loop = IdleLoop
    /\ RequestsIdle

ServersIdle ==
    /\ LogIdle
    /\ remote = NoRemote
    /\ server_groups = <<>>
    /\ project = NoProject
    /\ loop = StartLoop
    /\ contacted = <<>>
    /\ failures = {}

\* The stage-machine scenario: the process-wide gate, every deployment type,
\* projects with and without health checks.
Init ==
    /\ ServersIdle
    /\ InitOrch([rows |-> MaxDeployments, cancels |-> MaxCancels,
                 row_loss |-> MaxRowLoss, types |-> DeploymentType,
                 health_check |-> BOOLEAN, outcomes |-> BOOLEAN,
                 commits |-> BOOLEAN],
                DefaultMaxConcurrent)

\* The admission scenario: more submissions than the gate admits; FULL
\* deployments of projects without health checks, whose stages succeed.
AdmissionInit ==
    /\ ServersIdle
    /\ InitOrch([rows |-> AdmissionRows, cancels |-> AdmissionCancels,
                 row_loss |-> MaxRowLoss, types |-> {"FULL"},
                 health_check |-> {FALSE}, outcomes |-> {TRUE},
                 commits |-> {TRUE}],
                AdmissionCapacity)

----------------------------------------------------------------------------
(* API handlers (main event loop) *)

\* create_deployment once the request is validated: the row, the audit
\* record, the gate, the background task.
create_validated(type, hc) ==
    /\ LoopFree
    /\ next_id <= 1 + limits.rows
    /\ LET d == next_id
           row == new_row(type, 0, hc)
       IN /\ next_id' = next_id + 1
          /\ audit_logs' = audit_logs \cup {<<"DEPLOYMENT_CREATE", d>>}
          /\ running_deployments' = acquire(running_deployments, d)
          /\ IF acquire_admits(running_deployments)
             THEN /\ deployments' = [deployments EXCEPT ![d] = row]
                  /\ pc' = [pc EXCEPT ![d] = "scheduled"]
             ELSE /\ deployments' = [deployments EXCEPT ![d] =
                         [row EXCEPT !.status = "QUEUED",
                                     !.error_message = QueuedMessage]]
                  /\ pc' = pc

\* rollback_deployment once the request is validated: the row, the audit
\* record, the rollback task on the main event loop.
rollback_validated(src) ==
    /\ LoopFree
    /\ next_id <= 1 + limits.rows
    /\ Exists(src)
    /\ deployments[src].artifacts
    /\ LET d == next_id
       IN /\ next_id' = next_id + 1
          /\ deployments' = [deployments EXCEPT ![d] =
                 new_row("FULL", src, deployments[src].health_check_enabled)]
          /\ audit_logs' = audit_logs \cup {<<"DEPLOYMENT_ROLLBACK", d>>}
          /\ pc' = [pc EXCEPT ![d] = "rb_scheduled"]

\* create_deployment without the early return of its QUEUED branch.
create_deployment_no_return(type, hc) ==
    /\ LoopFree
    /\ next_id <= 1 + limits.rows
    /\ LET d == next_id
           row == new_row(type, 0, hc)
       IN /\ next_id' = next_id + 1
          /\ audit_logs' = audit_logs \cup {<<"DEPLOYMENT_CREATE", d>>}
          /\ running_deployments' = acquire(running_deployments, d)
          /\ pc' = [pc EXCEPT ![d] = "scheduled"]
          /\ IF acquire_admits(running_deployments)
             THEN deployments' = [deployments EXCEPT ![d] = row]
             ELSE deployments' = [deployments EXCEPT ![d] =
                         [row EXCEPT !.status = "QUEUED",
                                     !.error_message = QueuedMessage]]
    /\ UNCHANGED <<cancelled, cancel_requests, rows_lost, limits,
                   max_concurrent, gate_vars, detail_vars>>

\* POST /api/deployments, a request that passes validation
create_deployment(type, hc) ==
    /\ create_validated(type, hc)
    /\ UNCHANGED <<cancelled, cancel_requests, rows_lost, limits,
                   max_concurrent, gate_vars, detail_vars>>

\* POST /api/deployments/{id}/rollback, a request that passes validation
rollback_deployment(src) ==
    /\ rollback_validated(src)
    /\ UNCHANGED <<cancelled, cancel_requests, rows_lost, limits, gate_state,
                   gate_vars, detail_vars>>

\* DELETE /api/deployments/{id}
cancel_deployment(d) ==
    /\ LoopFree
    /\ cancel_requests < limits.cancels
    /\ Exists(d)
    /\ deployments[d].status \notin Terminal
    /\ deployments' = [deployments EXCEPT ![d].status = "CANCELLED"]
    /\ audit_logs' = audit_logs \cup {<<"DEPLOYMENT_CANCEL", d>>}
    /\ cancel_requests' = cancel_requests + 1
    /\ UNCHANGED <<next_id, pc, cancelled, rows_lost, limits, gate_state,
                   gate_vars, detail_vars>>

----------------------------------------------------------------------------
(* The relational store (collaborator) *)

\* The row of a scheduled deployment disappears before its task loads it.
row_lost(d) ==
    /\ rows_lost < limits.row_loss
    /\ pc[d] = "scheduled"
    /\ Exists(d)
    /\ deployments' = [deployments EXCEPT ![d] = NoRow]
    /\ rows_lost' = rows_lost + 1
    /\ UNCHANGED <<next_id, audit_logs, pc, cancelled, cancel_requests, limits,
                   gate_state, gate_vars, detail_vars>>

----------------------------------------------------------------------------
(* The deployment task (one thread per admitted deployment) *)

\* get_log_buffer: the buffer of the id, created when it has none.
get_log_buffer(buffers, d) == buffers \cup {d}

\* remove_log_buffer
remove_log_buffer(buffers, d) == buffers \ {d}

\* The registry after the service call of a task: remove_log_buffer is the
\* statement after the call, reached when the call returned.
buffer_after(buffers, d, returned) ==
    IF returned THEN remove_log_buffer(buffers, d) ELSE buffers

\* Positions of a task between its first status update and its end.
StagePcs == {"cloning", "building", "deploying", "health_checking",
             "restarting"}

\* deploy(): the except branch, after a stage raised.
deploy_failed(row, msg) == update_status(row, "FAILED", msg)

\* The check made at a stage boundary: a cancelled task stops, any other
\* enters the next status.
stage_boundary(d, row, next_status, next_pc) ==
    IF cancelled[d]
    THEN /\ deployments' = [deployments EXCEPT ![d] = handle_cancel(row)]
         /\ pc' = [pc EXCEPT ![d] = "ended"]
    ELSE /\ deployments' = [deployments EXCEPT ![d] =
                                update_status(row, next_status, None)]
         /\ pc' = [pc EXCEPT ![d] = next_pc]

\* A stage raised: deploy() records FAILED and re-raises.  The commit of
\* _update_status is a database call: it returns, or it raises in its turn
\* and the row keeps what it held.
stage_failed(d, msg) ==
    /\ \E committed \in limits.commits :
          deployments' = [deployments EXCEPT ![d] =
              IF committed THEN deploy_failed(@, msg) ELSE @]
    /\ pc' = [pc EXCEPT ![d] = "raised"]

\* What a stage step of a task leaves alone.
stage_frame == UNCHANGED <<next_id, audit_logs, cancelled, cancel_requests,
                           rows_lost, limits, gate_state, gate_vars, detail_vars>>

\* execute_deployment up to the first status update of deploy().
execute_deployment(d) ==
    /\ pc[d] = "scheduled"
    /\ IF ~Exists(d)
       THEN \* no row: release (the early return, then the finally block)
            /\ running_deployments' =
                   release(release(running_deployments, d), d)
            /\ pc' = [pc EXCEPT ![d] = "released"]
            /\ UNCHANGED <<deployments, cancelled, log_buffers>>
       ELSE /\ cancelled' = [cancelled EXCEPT ![d] = FALSE]
            /\ log_buffers' = get_log_buffer(log_buffers, d)
            /\ deployments' = [deployments EXCEPT ![d] =
                   IF @.deployment_type = "RESTART_ONLY"
                   THEN update_status(@, "RESTARTING", None)
                   ELSE update_status(@, "CLONING", None)]
            /\ pc' = [pc EXCEPT ![d] =
                   IF deployments[d].deployment_type = "RESTART_ONLY"
                   THEN "restarting" ELSE "cloning"]
            /\ UNCHANGED running_deployments
    /\ UNCHANGED <<next_id, audit_logs, cancel_requests, rows_lost, limits,
                   max_concurrent, gate_vars, task_detail>>

\* _full_deploy: _clone_repo returns or raises, then the boundary to BUILDING.
clone_repo(d, ok) ==
    /\ pc[d] = "cloning"
    /\ IF ok
       THEN stage_boundary(d, deployments[d], "BUILDING", "building")
       ELSE stage_failed(d, "Git operation failed")
    /\ stage_frame

\* _full_deploy: _build_project returns (artifact record created) or raises,
\* then the boundary to DEPLOYING.
build_project(d, ok) ==
    /\ pc[d] = "building"
    /\ IF ok
       THEN stage_boundary(d, [deployments[d] EXCEPT !.artifacts = TRUE],
                           "DEPLOYING", "deploying")
       ELSE stage_failed(d, "Build failed")
    /\ stage_frame

\* A full deployment that goes from DEPLOYING to SUCCESS whatever the project
\* says about health checks.
deploy_to_servers_skips_health(d, ok) ==
    /\ pc[d] = "deploying"
    /\ IF ok
       THEN stage_boundary(d, deployments[d], "SUCCESS", "ended")
       ELSE stage_failed(d, "Failed to deploy")
    /\ stage_frame

\* _full_deploy: _deploy_to_servers returns or raises, then the boundary to
\* HEALTH_CHECKING (if the project enables health checks) or SUCCESS.
deploy_to_servers(d, ok) ==
    /\ pc[d] = "deploying"
    /\ IF ok
       THEN IF deployments[d].health_check_enabled
            THEN stage_boundary(d, deployments[d], "HEALTH_CHECKING",
                                "health_checking")
            ELSE stage_boundary(d, deployments[d], "SUCCESS", "ended")
       ELSE stage_failed(d, "Failed to deploy")
    /\ stage_frame

\* _full_deploy: _perform_health_checks returns or raises, then SUCCESS.
perform_health_checks(d, ok) ==
    /\ pc[d] = "health_checking"
    /\ IF ok
       THEN stage_boundary(d, deployments[d], "SUCCESS", "ended")
       ELSE stage_failed(d, "Health check failed")
    /\ stage_frame

\* _restart_only_deploy: _restart_servers returns or raises, then SUCCESS.
restart_servers(d, ok) ==
    /\ pc[d] = "restarting"
    /\ IF ok
       THEN stage_boundary(d, deployments[d], "SUCCESS", "ended")
       ELSE stage_failed(d, "Failed to restart servers")
    /\ stage_frame

\* execute_deployment after deploy(): remove_log_buffer when deploy()
\* returned, and the finally block whether it returned or raised.
execute_deployment_finally(d) ==
    /\ pc[d] \in {"ended", "raised"}
    /\ log_buffers' = buffer_after(log_buffers, d, pc[d] = "ended")
    /\ running_deployments' = release(running_deployments, d)
    /\ pc' = [pc EXCEPT ![d] = "released"]
    /\ UNCHANGED <<deployments, next_id, audit_logs, cancelled,
                   cancel_requests, rows_lost, limits, max_concurrent,
                   gate_vars, task_detail>>

\* A wrapper that hands the slot it releases to the oldest QUEUED deployment.
run_deployment_sync_finally_promotes(d) ==
    /\ pc[d] = "released"
    /\ LET Q == {q \in Ids : Exists(q) /\ deployments[q].status = "QUEUED"}
       IN IF Q = {}
          THEN /\ running_deployments' = release(running_deployments, d)
               /\ pc' = [pc EXCEPT ![d] = "done"]
               /\ UNCHANGED deployments
          ELSE LET q == CHOOSE q \in Q : \A r \in Q : q <= r
               IN /\ running_deployments' =
                         acquire(release(running_deployments, d), q)
                  /\ pc' = [pc EXCEPT ![d] = "done", ![q] = "scheduled"]
                  /\ deployments' =
                         [deployments EXCEPT ![q].status = "PENDING"]
    /\ UNCHANGED <<next_id, audit_logs, cancelled, cancel_requests, rows_lost,
                   limits, max_concurrent, gate_vars, detail_vars>>

\* run_deployment_sync._run: the finally block of the background wrapper.
run_deployment_sync_finally(d) ==
    /\ pc[d] = "released"
    /\ running_deployments' = release(running_deployments, d)
    /\ pc' = [pc EXCEPT ![d] = "done"]
    /\ UNCHANGED <<deployments, next_id, audit_logs, cancelled,
                   cancel_requests, rows_lost, limits, max_concurrent,
                   gate_vars, detail_vars>>

----------------------------------------------------------------------------
(* The rollback task (a coroutine of the main event loop) *)

\* execute_rollback: load both rows; return if one is missing (the
\* remove_log_buffer after the finally block then finds no buffer), else
\* construct the RollbackService and its logger.
execute_rollback(d) ==
    /\ pc[d] = "rb_scheduled"
    /\ LoopFree
    /\ IF Exists(d) /\ Exists(deployments[d].rollback_from)
       THEN /\ pc' = [pc EXCEPT ![d] = "rb_running"]
            /\ log_buffers' = get_log_buffer(log_buffers, d)
       ELSE /\ pc' = [pc EXCEPT ![d] = "done"]
            /\ log_buffers' = remove_log_buffer(log_buffers, d)
    /\ UNCHANGED <<deployments, next_id, audit_logs, cancelled,
                   cancel_requests, rows_lost, limits, gate_state, gate_vars,
                   task_detail>>

\* RollbackService.rollback: the fan-out returns, or something raises and
\* the except branch records FAILED (its commit returns or raises) and
\* re-raises.  execute_rollback goes on to remove_log_buffer when rollback()
\* returned.
rollback(d, ok) ==
    /\ pc[d] = "rb_running"
    /\ log_buffers' = buffer_after(log_buffers, d, ok)
    /\ \E committed \in limits.commits :
          deployments' = [deployments EXCEPT ![d] =
              IF ok THEN [@ EXCEPT !.status = "SUCCESS"]
              ELSE IF committed
                   THEN [@ EXCEPT !.status = "FAILED",
                                  !.error_message = "Rollback failed"]
                   ELSE @]
    /\ pc' = [pc EXCEPT ![d] = "done"]
    /\ UNCHANGED <<next_id, audit_logs, cancelled, cancel_requests, rows_lost,
                   limits, gate_state, gate_vars, task_detail>>

----------------------------------------------------------------------------

\* The steps of a system whose projects ask for FULL deployments only and
\* have health checks switched off.
AdmissionNext ==
    \/ \E type \in limits.types, hc \in limits.health_check :
          create_deployment(type, hc)
    \/ \E src \in Ids : rollback_deployment(src)
    \/ \E d \in Ids : cancel_deployment(d)
    \/ \E d \in Ids : row_lost(d)
    \/ \E d \in Ids : execute_deployment(d)
    \/ \E d \in Ids, ok \in limits.outcomes : clone_repo(d, ok)
    \/ \E d \in Ids, ok \in limits.outcomes : build_project(d, ok)
    \/ \E d \in Ids, ok \in limits.outcomes : deploy_to_servers(d, ok)
    \/ \E d \in Ids : execute_deployment_finally(d)
    \/ \E d \in Ids : run_deployment_sync_finally(d)
    \/ \E d \in Ids : execute_rollback(d)
    \/ \E d \in Ids, ok \in limits.outcomes : rollback(d, ok)

Next ==
    \/ AdmissionNext
    \/ \E d \in Ids, ok \in limits.outcomes : perform_health_checks(d, ok)
    \/ \E d \in Ids, ok \in limits.outcomes : restart_servers(d, ok)

Spec == Init /\ [][Next]_vars

AdmissionSpec == AdmissionInit /\ [][AdmissionNext]_vars

\* A step of the task of deployment d (deployment thread or rollback coroutine).
task_step(d) ==
    \/ execute_deployment(d)
    \/ \E ok \in limits.outcomes : clone_repo(d, ok)
    \/ \E ok \in limits.outcomes : build_project(d, ok)
    \/ \E ok \in limits.outcomes : deploy_to_servers(d, ok)
    \/ \E ok \in limits.outcomes : perform_health_checks(d, ok)
    \/ \E ok \in limits.outcomes : restart_servers(d, ok)
    \/ execute_deployment_finally(d)
    \/ run_deployment_sync_finally(d)
    \/ execute_rollback(d)
    \/ \E ok \in limits.outcomes : rollback(d, ok)

\* Every collaborator call returns or raises, and a started thread or
\* coroutine is scheduled until it ends.
FairSpec == Init /\ [][Next]_vars /\ \A d \in Ids : WF_vars(task_step(d))

----------------------------------------------------------------------------
(* The server loops of a deployment task, server by server (ServerSpec) *)

\* Bounds of the server scenario: selected groups, servers of all of them.
MaxGroups == 2
MaxServers == 3

ServerName(g, i) == "g" \o ToString(g) \o "s" \o ToString(i)

RECURSIVE server_count(_)
server_count(groups) ==
    IF groups = <<>> THEN 0 ELSE Len(Head(groups)) + server_count(Tail(groups))

\* The selections of at least one (server_group_ids has min_length 1) and at
\* most MaxGroups groups with at most MaxServers servers in all, each server
\* active or not; a server is named after its group and its place in it.
ServerGroupLists ==
    LET Flags == UNION {[1..k -> BOOLEAN] : k \in 0..MaxServers}
        Shapes == {f \in UNION {[1..n -> Flags] : n \in 1..MaxGroups} :
                      server_count(f) <= MaxServers}
    IN {[g \in 1..Len(f) |->
            [i \in 1..Len(f[g]) |->
                [name |-> ServerName(g, i), is_active |-> f[g][i]]]]
        : f \in Shapes}

\* for group in server_groups: for server in group.servers: the place of the
\* next server from <<g, i>> on; past the last group when there is none.
RECURSIVE seek(_, _, _)
seek(groups, g, i) ==
    IF g > Len(groups) THEN <<g, 1>>
    ELSE IF i > Len(groups[g]) THEN seek(groups, g + 1, 1)
    ELSE <<g, i>>

first_server(groups) == seek(groups, 1, 1)
next_server(groups, c) == seek(groups, c[1], c[2] + 1)
exhausted(groups, c) == c[1] > Len(groups)
server_at(groups, c) == groups[c[1]][c[2]]

\* if not server.is_active: log a warning and continue.
skipped_never(server) == FALSE
skipped(server) == ~server.is_active

\* A loop starts over the groups of the deployment.
start_loop(groups) == [StartLoop EXCEPT !.cursor = first_server(groups)]

\* What a step of a server loop leaves alone.
loop_frame == UNCHANGED <<next_id, audit_logs, cancelled, cancel_requests,
                          rows_lost, limits, gate_state, gate_vars,
                          server_groups, project, remote, log_vars,
                          log_buffers, request_vars>>

\* A remote command or transfer is noted in the order of its issue.
issue(r, command) == [r EXCEPT !.issued = Append(@, command)]

\* What _deploy_to_server does on one server.
DeployOutcomes == {"ok", "deploy_raises", "script_nonzero"}

\* _deploy_to_servers: one turn of the loop.  An inactive server is skipped;
\* on an active one _deploy_to_server uploads and unpacks the artifact, then
\* runs the restart script if the project has one.  Anything that raises
\* leaves the loop and deploy() records FAILED.
deploy_to_server(d, outcome) ==
    /\ pc[d] = "deploying"
    /\ ~exhausted(server_groups, loop.cursor)
    /\ LET server == server_at(server_groups, loop.cursor)
           advance == [loop EXCEPT
                           !.cursor = next_server(server_groups, @)]
           ran == IF project.restart_script_path /\ outcome # "deploy_raises"
                  THEN <<<<"script", server.name>>>> ELSE <<>>
           answered == IF ran # <<>> /\ outcome = "script_nonzero"
                       THEN {"script_failed"} ELSE {}
           fatal == \/ outcome = "deploy_raises"
                    \/ /\ outcome = "script_nonzero"
                       /\ project.restart_script_path
                       /\ project.verbosity = "minimal"
       IN IF skipped(server)
          THEN /\ loop' = advance
               /\ UNCHANGED <<deployments, pc, contacted, failures>>
          ELSE /\ contacted' =
                      contacted \o <<<<"deploy", server.name>>>> \o ran
               /\ failures' = failures \cup answered
               /\ IF fatal
                  THEN /\ stage_failed(d, "Failed to deploy to "
                                              \o server.name \o ": " \o outcome)
                       /\ loop' = loop
                  ELSE /\ loop' = advance
                       /\ UNCHANGED <<deployments, pc>>
    /\ loop_frame

\* A return from DEPLOYING that passes by the health checks.
deploy_to_servers_return_skips_health(d) ==
    /\ pc[d] = "deploying"
    /\ exhausted(server_groups, loop.cursor)
    /\ stage_boundary(d, deployments[d], "SUCCESS", "ended")
    /\ loop' = start_loop(server_groups)
    /\ UNCHANGED <<contacted, failures>>
    /\ loop_frame

\* _deploy_to_servers returned: the boundary after the DEPLOYING stage.
deploy_to_servers_return(d) ==
    /\ pc[d] = "deploying"
    /\ exhausted(server_groups, loop.cursor)
    /\ IF deployments[d].health_check_enabled
       THEN stage_boundary(d, deployments[d], "HEALTH_CHECKING",
                           "health_checking")
       ELSE stage_boundary(d, deployments[d], "SUCCESS", "ended")
    /\ loop' = start_loop(server_groups)
    /\ UNCHANGED <<contacted, failures>>
    /\ loop_frame

\* What the probe of one server does: perform_health_check returns true or
\* false or raises HealthCheckError; opening the SSH connection may raise.
ProbeOutcomes == {"passed", "not_passed", "health_check_error",
                  "connect_raises"}

\* _perform_health_checks: one turn of the loop.
health_check_server(d, outcome) ==
    /\ pc[d] = "health_checking"
    /\ ~exhausted(server_groups, loop.cursor)
    /\ LET server == server_at(server_groups, loop.cursor)
           advance == [loop EXCEPT
                           !.cursor = next_server(server_groups, @)]
       IN IF skipped(server)
          THEN /\ loop' = advance
               /\ UNCHANGED <<deployments, pc, contacted, failures>>
          ELSE /\ contacted' = Append(contacted, <<"probe", server.name>>)
               /\ failures' = IF outcome = "passed" THEN failures
                              ELSE failures \cup {"probe_failed"}
               /\ IF outcome = "connect_raises"
                  THEN /\ stage_failed(d, "SSH connection error: "
                                              \o server.name)
                       /\ loop' = loop
                  ELSE /\ loop' = [advance EXCEPT !.all_passed =
                                       @ /\ outcome = "passed"]
                       /\ UNCHANGED <<deployments, pc>>
    /\ loop_frame

\* A health-check stage that passes whatever the probes answered.
perform_health_checks_return_passes(d) ==
    /\ pc[d] = "health_checking"
    /\ exhausted(server_groups, loop.cursor)
    /\ stage_boundary(d, deployments[d], "SUCCESS", "ended")
    /\ UNCHANGED <<loop, contacted, failures>>
    /\ loop_frame

\* _perform_health_checks after the loop: raise unless every probe passed;
\* then the last status update of _full_deploy.
perform_health_checks_return(d) ==
    /\ pc[d] = "health_checking"
    /\ exhausted(server_groups, loop.cursor)
    /\ IF loop.all_passed
       THEN stage_boundary(d, deployments[d], "SUCCESS", "ended")
       ELSE stage_failed(d, "health check failed on one or more servers")
    /\ UNCHANGED <<loop, contacted, failures>>
    /\ loop_frame

\* ', '.join(failed_servers)
RECURSIVE join(_)
join(names) ==
    IF names = <<>> THEN ""
    ELSE IF Len(names) = 1 THEN names[1]
    ELSE names[1] \o ", " \o join(Tail(names))

\* What the restart-only script does on one server.
RestartOutcomes == {"ok", "script_nonzero", "connect_raises"}

\* _restart_servers: one turn of the loop.  _restart_server raises at once
\* when the project has no restart_only_script_path; every DeploymentError is
\* caught, the server is noted and the loop goes on.
restart_server(d, outcome) ==
    /\ pc[d] = "restarting"
    /\ ~exhausted(server_groups, loop.cursor)
    /\ LET server == server_at(server_groups, loop.cursor)
           advance == [loop EXCEPT
                           !.cursor = next_server(server_groups, @)]
           failed == [advance EXCEPT
                          !.failed_servers = Append(@, server.name)]
       IN IF skipped(server)
          THEN /\ loop' = advance
               /\ UNCHANGED contacted
          ELSE IF ~project.restart_only_script_path
          THEN /\ loop' = failed
               /\ UNCHANGED contacted
          ELSE /\ contacted' = Append(contacted, <<"restart", server.name>>)
               /\ loop' = IF outcome = "ok" THEN advance ELSE failed
    /\ UNCHANGED <<deployments, pc, failures>>
    /\ loop_frame

\* _restart_servers after the loop: FAILED and raise if a server failed; else
\* it returns and _restart_only_deploy records SUCCESS.
restart_servers_return(d) ==
    /\ pc[d] = "restarting"
    /\ exhausted(server_groups, loop.cursor)
    /\ IF loop.failed_servers # <<>>
       THEN stage_failed(d, "Failed to restart servers: "
                                \o join(loop.failed_servers))
       ELSE stage_boundary(d, deployments[d], "SUCCESS", "ended")
    /\ UNCHANGED <<loop, contacted, failures>>
    /\ loop_frame

\* One deployment of a project, submitted to a free gate; its clone and its
\* build succeed or raise, and every database commit succeeds.
ServerInit ==
    /\ InitOrch([rows |-> 1, cancels |-> 0, row_loss |-> 0,
                 types |-> DeploymentType, health_check |-> BOOLEAN,
                 outcomes |-> BOOLEAN, commits |-> {TRUE}],
                DefaultMaxConcurrent)
    /\ server_groups \in ServerGroupLists
    /\ project \in [restart_script_path : BOOLEAN,
                    restart_only_script_path : BOOLEAN,
                    verbosity : {"minimal", "detailed"}]
    /\ loop = start_loop(server_groups)
    /\ contacted = <<>>
    /\ failures = {}
    /\ remote = NoRemote
    /\ LogIdle

ServerNext ==
    \/ \E type \in limits.types, hc \in limits.health_check :
          create_deployment(type, hc)
    \/ \E d \in Ids : execute_deployment(d)
    \/ \E d \in Ids, ok \in limits.outcomes : clone_repo(d, ok)
    \/ \E d \in Ids, ok \in limits.outcomes : build_project(d, ok)
    \/ \E d \in Ids, outcome \in DeployOutcomes : deploy_to_server(d, outcome)
    \/ \E d \in Ids : deploy_to_servers_return(d)
    \/ \E d \in Ids, outcome \in ProbeOutcomes :
          health_check_server(d, outcome)
    \/ \E d \in Ids : perform_health_checks_return(d)
    \/ \E d \in Ids, outcome \in RestartOutcomes : restart_server(d, outcome)
    \/ \E d \in Ids : restart_servers_return(d)
    \/ \E d \in Ids : execute_deployment_finally(d)
    \/ \E d \in Ids : run_deployment_sync_finally(d)

ServerSpec == ServerInit /\ [][ServerNext]_vars

----------------------------------------------------------------------------
(* The rollback task, server by server (RollbackSpec) *)

\* RollbackService.rollback, the except branch: FAILED and the message are
\* set on the row (the commit returns or raises) and RollbackError is raised
\* again, past the remove_log_buffer of execute_rollback.
rollback_failed(d, msg) ==
    /\ \E committed \in limits.commits :
          deployments' = [deployments EXCEPT ![d] =
              IF committed
              THEN [@ EXCEPT !.status = "FAILED", !.error_message = msg]
              ELSE @]
    /\ pc' = [pc EXCEPT ![d] = "done"]

\* RollbackService.rollback up to the fan-out: the first artifact record of
\* the source deployment and its file.
rollback_artifact(d, file_exists) ==
    /\ pc[d] = "rb_running"
    /\ IF ~deployments[deployments[d].rollback_from].artifacts
       THEN /\ rollback_failed(d, "No artifact found for deployment")
            /\ loop' = loop
       ELSE IF ~file_exists
       THEN /\ rollback_failed(d, "Artifact file not found")
            /\ loop' = loop
       ELSE /\ pc' = [pc EXCEPT ![d] = "rb_deploying"]
            /\ loop' = start_loop(server_groups)
            /\ UNCHANGED deployments
    /\ UNCHANGED <<contacted, failures>>
    /\ loop_frame

\* What the connection and the upload do on one server.
RollbackOutcomes == {"connect_raises", "upload_raises", "uploaded"}

\* The remote operations of DeploymentService._deploy_to_server on one
\* server when each succeeds, each with the place it works on: those of
\* _deploy_frontend_to_server or _deploy_backend_to_server, then the restart
\* script of the project, if it has one.
deploy_operations(project_type, restart_script) ==
    (IF project_type = "frontend"
     THEN <<<<"mkdir", "parent of upload_path">>,
            <<"upload", "parent of upload_path">>,
            <<"backup", "upload_path">>, <<"check", "backup">>,
            <<"unzip", "upload_path">>, <<"cleanup", "zip">>>>
     ELSE <<<<"mkdir", "upload_path">>, <<"upload", "upload_path">>,
            <<"unzip", "upload_path">>>>)
    \o (IF restart_script THEN <<<<"script", "restart_script_path">>>>
        ELSE <<>>)

\* RollbackService._deploy_to_servers: one turn of the loop.  An inactive
\* server is skipped.  On an active one the artifact is uploaded to /tmp;
\* the extraction is then to go to server.deploy_path, an attribute the
\* Server model does not have since migration 009 (nor has the Project
\* model the deploy_script_path read further on): the lookup raises
\* AttributeError before any command is issued.  Whatever raises is
\* wrapped in RollbackError and ends the rollback.
rollback_to_server(d, outcome) ==
    /\ pc[d] = "rb_deploying"
    /\ ~exhausted(server_groups, loop.cursor)
    /\ LET server == server_at(server_groups, loop.cursor)
           raised == CASE outcome = "connect_raises" -> "connect_failed"
                       [] outcome = "upload_raises" -> "upload_failed"
                       [] OTHER -> "no_attribute"
       IN IF skipped(server)
          THEN /\ loop' = [loop EXCEPT
                               !.cursor = next_server(server_groups, @)]
               /\ UNCHANGED <<deployments, pc, contacted, failures, remote>>
          ELSE /\ contacted' = contacted \o <<<<"deploy", server.name>>>>
               /\ failures' = failures \cup {raised}
               /\ remote' = IF outcome = "uploaded"
                            THEN issue(remote, <<"upload", "/tmp">>)
                            ELSE remote
               /\ rollback_failed(d, "Failed to deploy to " \o server.name
                                         \o ": " \o raised)
               /\ loop' = loop
    /\ UNCHANGED <<next_id, audit_logs, cancelled, cancel_requests,
                   rows_lost, limits, gate_state, gate_vars, server_groups,
                   project, log_vars, log_buffers, request_vars>>

\* RollbackService.rollback after the fan-out: SUCCESS is set on the row;
\* execute_rollback closes the session and removes the log buffer.
rollback_return(d) ==
    /\ pc[d] = "rb_deploying"
    /\ exhausted(server_groups, loop.cursor)
    /\ deployments' = [deployments EXCEPT ![d].status = "SUCCESS"]
    /\ pc' = [pc EXCEPT ![d] = "done"]
    /\ log_buffers' = remove_log_buffer(log_buffers, d)
    /\ UNCHANGED <<next_id, audit_logs, cancelled, cancel_requests, rows_lost,
                   limits, gate_state, gate_vars, server_vars, remote,
                   log_vars, request_vars>>

\* One request, a deployment or a rollback of the deployment of the earlier
\* run, to every selection of server groups; stages that return or raise.
RollbackInit ==
    /\ InitOrch([rows |-> 1, cancels |-> 0, row_loss |-> 0,
                 types |-> {"FULL"}, health_check |-> {FALSE},
                 outcomes |-> BOOLEAN, commits |-> {TRUE}],
                DefaultMaxConcurrent)
    /\ server_groups \in ServerGroupLists
    /\ project \in [restart_script_path : BOOLEAN,
                    restart_only_script_path : {FALSE},
                    verbosity : {"minimal"},
                    project_type : {"frontend", "backend", "java"}]
    /\ loop = StartLoop
    /\ contacted = <<>>
    /\ failures = {}
    /\ remote = NoRemote
    /\ LogIdle

RollbackNext ==
    \/ \E type \in limits.types, hc \in limits.health_check :
          create_deployment(type, hc)
    \/ \E d \in Ids : execute_deployment(d)
    \/ \E d \in Ids, ok \in limits.outcomes : clone_repo(d, ok)
    \/ \E d \in Ids, ok \in limits.outcomes : build_project(d, ok)
    \/ \E d \in Ids, ok \in limits.outcomes : deploy_to_servers(d, ok)
    \/ \E d \in Ids : execute_deployment_finally(d)
    \/ \E d \in Ids : run_deployment_sync_finally(d)
    \/ \E src \in Ids : rollback_deployment(src)
    \/ \E d \in Ids : execute_rollback(d)
    \/ \E d \in Ids, file_exists \in BOOLEAN :
          rollback_artifact(d, file_exists)
    \/ \E d \in Ids, outcome \in RollbackOutcomes :
          rollback_to_server(d, outcome)
    \/ \E d \in Ids : rollback_return(d)

RollbackSpec == RollbackInit /\ [][RollbackNext]_vars

----------------------------------------------------------------------------
(* Deployments of an uploaded artifact (UploadSpec) *)

\* The upload endpoint: the file is stored and recorded as the artifact of a
\* new deployment of type UPLOAD, which is submitted like any other.  A row
\* without an artifact record is the case of test_upload_deploy_no_artifact.
create_upload_deployment(hc, artifact) ==
    /\ LoopFree
    /\ next_id <= 1 + limits.rows
    /\ LET d == next_id
           row == [new_row("UPLOAD", 0, hc) EXCEPT !.artifacts = artifact]
       IN /\ next_id' = next_id + 1
          /\ audit_logs' = audit_logs \cup {<<"DEPLOYMENT_CREATE", d>>}
          /\ running_deployments' = acquire(running_deployments, d)
          /\ IF acquire_admits(running_deployments)
             THEN /\ deployments' = [deployments EXCEPT ![d] = row]
                  /\ pc' = [pc EXCEPT ![d] = "scheduled"]
             ELSE /\ deployments' = [deployments EXCEPT ![d] =
                         [row EXCEPT !.status = "QUEUED",
                                     !.error_message = QueuedMessage]]
                  /\ pc' = pc
    /\ UNCHANGED <<cancelled, cancel_requests, rows_lost, limits,
                   max_concurrent, gate_vars, detail_vars>>

\* The task of an UPLOAD deployment up to its first status update:
\* _upload_deploy raises "No artifact found" when the deployment has no
\* artifact, and else enters DEPLOYING to deploy the recorded file.
upload_deploy(d) ==
    /\ pc[d] = "scheduled"
    /\ Exists(d)
    /\ deployments[d].deployment_type = "UPLOAD"
    /\ cancelled' = [cancelled EXCEPT ![d] = FALSE]
    /\ IF deployments[d].artifacts
       THEN /\ deployments' = [deployments EXCEPT ![d] =
                                   update_status(@, "DEPLOYING", None)]
            /\ pc' = [pc EXCEPT ![d] = "deploying"]
       ELSE stage_failed(d, "No artifact found")
    /\ UNCHANGED <<next_id, audit_logs, cancel_requests, rows_lost, limits,
                   gate_state, gate_vars, detail_vars>>

\* One uploaded deployment of a project, submitted to a free gate.
UploadInit ==
    /\ InitOrch([rows |-> 1, cancels |-> 0, row_loss |-> 0,
                 types |-> {"UPLOAD"}, health_check |-> BOOLEAN,
                 outcomes |-> {TRUE}, commits |-> {TRUE}],
                DefaultMaxConcurrent)
    /\ server_groups \in ServerGroupLists
    /\ project \in [restart_script_path : BOOLEAN,
                    restart_only_script_path : {FALSE},
                    verbosity : {"minimal", "detailed"}]
    /\ loop = start_loop(server_groups)
    /\ contacted = <<>>
    /\ failures = {}
    /\ remote = NoRemote
    /\ LogIdle

UploadNext ==
    \/ \E hc \in limits.health_check, artifact \in BOOLEAN :
          create_upload_deployment(hc, artifact)
    \/ \E d \in Ids : upload_deploy(d)
    \/ \E d \in Ids, outcome \in DeployOutcomes : deploy_to_server(d, outcome)
    \/ \E d \in Ids : deploy_to_servers_return(d)
    \/ \E d \in Ids, outcome \in ProbeOutcomes :
          health_check_server(d, outcome)
    \/ \E d \in Ids : perform_health_checks_return(d)
    \/ \E d \in Ids : execute_deployment_finally(d)
    \/ \E d \in Ids : run_deployment_sync_finally(d)

UploadSpec == UploadInit /\ [][UploadNext]_vars

----------------------------------------------------------------------------
(* The deployment of a frontend artifact to one server, command by command
   (FrontendSpec).  remote.target is what the upload path holds on the server:
   "absent", the "original" directory, the "new" content, a "partial"
   extraction, or "nested": an extraction with the backup directory moved
   inside it.  Every command returns an exit code. *)

frontend_frame == UNCHANGED <<next_id, audit_logs, cancelled, cancel_requests,
                              rows_lost, limits, gate_state, gate_vars,
                              server_groups, project, log_vars,
                              log_buffers, request_vars>>

\* The step goes on with the remote state r.
frontend_continue(r) ==
    /\ remote' = r
    /\ UNCHANGED <<deployments, pc, loop, contacted, failures>>

\* The step raises DeploymentError(msg): _deploy_to_server wraps it and
\* deploy() records FAILED.
frontend_raise(d, r, msg) ==
    /\ remote' = [r EXCEPT !.step = "failed"]
    /\ stage_failed(d, "Failed to deploy to "
                           \o server_at(server_groups, loop.cursor).name
                           \o ": " \o msg)
    /\ UNCHANGED <<loop, contacted, failures>>

in_step(d, step) ==
    /\ pc[d] = "deploying"
    /\ ~exhausted(server_groups, loop.cursor)
    /\ remote.step = step

\* _deploy_to_server on the next server, a frontend project: connect; the
\* upload path exists on the server as a directory, or not.
frontend_begin(d, existed) ==
    /\ in_step(d, "idle")
    /\ ~skipped(server_at(server_groups, loop.cursor))
    /\ remote' = [NoRemote EXCEPT
                      !.step = "mkdir", !.existed = existed,
                      !.target = IF existed THEN "original" ELSE "absent"]
    /\ contacted' = Append(contacted,
           <<"deploy", server_at(server_groups, loop.cursor).name>>)
    /\ UNCHANGED <<deployments, pc, loop, failures>>
    /\ frontend_frame

\* 1. mkdir -p of the parent directory
frontend_mkdir(d, exit_ok) ==
    /\ in_step(d, "mkdir")
    /\ IF exit_ok
       THEN frontend_continue([issue(remote, "mkdir") EXCEPT
                                   !.step = "upload"])
       ELSE frontend_raise(d, issue(remote, "mkdir"),
                           "Failed to create parent directory")
    /\ frontend_frame

\* 2. upload of the zip to the parent directory
frontend_upload(d) ==
    /\ in_step(d, "upload")
    /\ frontend_continue([remote EXCEPT !.zip = TRUE, !.step = "backup"])
    /\ frontend_frame

\* 3. if [ -d target ]; then mv target backup; fi.  It exits non-zero only
\* when the mv ran and failed; then the zip is removed and the step raises.
frontend_backup(d, exit_ok) ==
    /\ in_step(d, "backup")
    /\ exit_ok \/ remote.target # "absent"
    /\ IF exit_ok
       THEN frontend_continue([issue(remote, "backup") EXCEPT
                !.step = "check",
                !.backup = remote.target # "absent",
                !.target = "absent"])
       ELSE frontend_raise(d, [issue(issue(remote, "backup"), "rm") EXCEPT
                                   !.zip = FALSE],
                           "backup failed, deployment aborted")
    /\ frontend_frame

\* [ -d backup ] && echo EXISTS || echo NOT_EXISTS
frontend_check(d) ==
    /\ in_step(d, "check")
    /\ frontend_continue([issue(remote, "check") EXCEPT
                              !.step = "unzip",
                              !.backup_exists = remote.backup])
    /\ frontend_frame

\* if backup_exists: try to restore the backup
restore_due_always(backup_exists) == TRUE
restore_due(backup_exists) == backup_exists

\* How unzip -o zip -d target ends: exit 0; a failure before it made the
\* target directory; a failure after it made the directory and extracted a
\* part; a non-zero exit for a warning after everything was extracted.
UnzipOutcomes == {"ok", "no_directory", "partial", "warning"}

\* 4. the unzip; a non-zero exit leads to the restore or to the removal of
\* the zip.
frontend_unzip(d, outcome) ==
    /\ in_step(d, "unzip")
    /\ frontend_continue([issue(remote, "unzip") EXCEPT
           !.target = CASE outcome = "no_directory" -> @
                        [] outcome = "partial" -> "partial"
                        [] OTHER -> "new",
           !.stderr = IF outcome = "ok" THEN "" ELSE "unzip: " \o outcome,
           !.step = IF outcome = "ok" THEN "cleanup"
                    ELSE IF restore_due(remote.backup_exists) THEN "restore"
                    ELSE "cleanup_failed"])
    /\ frontend_frame

\* mv backup target: a rename when the target is absent; with a target
\* directory in place the backup is moved inside it.  A failure is logged.
frontend_restore(d, exit_ok) ==
    /\ in_step(d, "restore")
    /\ frontend_continue([issue(remote, "restore") EXCEPT
           !.step = "cleanup_failed",
           !.backup = IF exit_ok THEN FALSE ELSE @,
           !.target = IF ~exit_ok THEN @
                      ELSE IF @ = "absent" THEN "original" ELSE "nested"])
    /\ frontend_frame

\* rm -f zip, its result unread, then raise with the stderr of the unzip.
frontend_unzip_failed(d) ==
    /\ in_step(d, "cleanup_failed")
    /\ frontend_raise(d, [issue(remote, "rm") EXCEPT !.zip = FALSE],
                      "unzip failed, deployment aborted: " \o remote.stderr)
    /\ frontend_frame

\* 5. rm -f zip after a good unzip; a failure is only a warning.
frontend_cleanup(d, exit_ok) ==
    /\ in_step(d, "cleanup")
    /\ frontend_continue([issue(remote, "rm") EXCEPT
                              !.zip = ~exit_ok, !.step = "script"])
    /\ frontend_frame

\* Back in _deploy_to_server: the restart script, if the project has one; then
\* the loop goes to the next server.
frontend_restart_script(d, exit_ok) ==
    /\ in_step(d, "script")
    /\ LET name == server_at(server_groups, loop.cursor).name
           runs == project.restart_script_path
           ran == IF runs THEN issue(remote, "script") ELSE remote
       IN /\ contacted' =
                 IF runs
                 THEN Append(contacted, <<"script", name>>)
                 ELSE contacted
          /\ failures' = IF runs /\ ~exit_ok
                         THEN failures \cup {"script_failed"} ELSE failures
          /\ IF runs /\ ~exit_ok /\ project.verbosity = "minimal"
             THEN /\ remote' = [ran EXCEPT !.step = "failed"]
                  /\ stage_failed(d, "Failed to deploy to " \o name
                                         \o ": script_nonzero")
                  /\ loop' = loop
             ELSE /\ remote' = [ran EXCEPT !.step = "idle"]
                  /\ loop' = [loop EXCEPT
                                  !.cursor = next_server(server_groups, @)]
                  /\ UNCHANGED <<deployments, pc>>
    /\ frontend_frame

\* One FULL deployment of a frontend project to one group of active servers.
FrontendInit ==
    /\ InitOrch([rows |-> 1, cancels |-> 0, row_loss |-> 0,
                 types |-> {"FULL"}, health_check |-> {FALSE},
                 outcomes |-> {TRUE}, commits |-> {TRUE}],
                DefaultMaxConcurrent)
    /\ server_groups \in
           {groups \in ServerGroupLists :
               /\ Len(groups) = 1
               /\ Len(groups[1]) >= 1
               /\ \A i \in 1..Len(groups[1]) : groups[1][i].is_active}
    /\ project \in [restart_script_path : BOOLEAN,
                    restart_only_script_path : {FALSE},
                    verbosity : {"minimal", "detailed"}]
    /\ loop = start_loop(server_groups)
    /\ contacted = <<>>
    /\ failures = {}
    /\ remote = NoRemote
    /\ LogIdle

FrontendNext ==
    \/ \E type \in limits.types, hc \in limits.health_check :
          create_deployment(type, hc)
    \/ \E d \in Ids : execute_deployment(d)
    \/ \E d \in Ids, ok \in limits.outcomes : clone_repo(d, ok)
    \/ \E d \in Ids, ok \in limits.outcomes : build_project(d, ok)
    \/ \E d \in Ids, existed \in BOOLEAN : frontend_begin(d, existed)
    \/ \E d \in Ids, exit_ok \in BOOLEAN : frontend_mkdir(d, exit_ok)
    \/ \E d \in Ids : frontend_upload(d)
    \/ \E d \in Ids, exit_ok \in BOOLEAN : frontend_backup(d, exit_ok)
    \/ \E d \in Ids : frontend_check(d)
    \/ \E d \in Ids, outcome \in UnzipOutcomes : frontend_unzip(d, outcome)
    \/ \E d \in Ids, exit_ok \in BOOLEAN : frontend_restore(d, exit_ok)
    \/ \E d \in Ids : frontend_unzip_failed(d)
    \/ \E d \in Ids, exit_ok \in BOOLEAN : frontend_cleanup(d, exit_ok)
    \/ \E d \in Ids, exit_ok \in BOOLEAN : frontend_restart_script(d, exit_ok)
    \/ \E d \in Ids : deploy_to_servers_return(d)
    \/ \E d \in Ids : execute_deployment_finally(d)
    \/ \E d \in Ids : run_deployment_sync_finally(d)

FrontendSpec == FrontendInit /\ [][FrontendNext]_vars

----------------------------------------------------------------------------
(* The gate taken alone: acquire and release, statement by statement *)

\* A lock that never excludes anybody.
lock_free_always(holder) == TRUE

\* async with self._lock: the lock is free.
lock_free(holder) == holder = 0

\* A coroutine calls acquire(id) or release(id) and reaches the lock.
gate_call(c, op, id) ==
    /\ caller[c].pc = "idle"
    /\ caller' = [caller EXCEPT ![c] = [pc |-> "lock", op |-> op, id |-> id,
                                        result |-> None]]
    /\ UNCHANGED <<gate_lock, gate_state, orch_vars, detail_vars>>

\* async with self._lock: enter.
gate_lock_enter(c) ==
    /\ caller[c].pc = "lock"
    /\ lock_free(gate_lock)
    /\ gate_lock' = c
    /\ caller' = [caller EXCEPT ![c].pc =
                      IF caller[c].op = "acquire" THEN "check" ELSE "discard"]
    /\ UNCHANGED <<gate_state, orch_vars, detail_vars>>

\* acquire: if len(self._running_deployments) >= self.max_concurrent:
\*              return False
gate_acquire_check(c) ==
    /\ caller[c].pc = "check"
    /\ caller' = [caller EXCEPT ![c] =
           IF acquire_admits(running_deployments)
           THEN [@ EXCEPT !.pc = "insert"]
           ELSE [@ EXCEPT !.pc = "unlock", !.result = FALSE]]
    /\ UNCHANGED <<gate_lock, gate_state, orch_vars, detail_vars>>

\* acquire: self._running_deployments.add(deployment_id); return True
gate_acquire_insert(c) ==
    /\ caller[c].pc = "insert"
    /\ running_deployments' = running_deployments \cup {caller[c].id}
    /\ caller' = [caller EXCEPT ![c].pc = "unlock", ![c].result = TRUE]
    /\ UNCHANGED <<gate_lock, max_concurrent, orch_vars, detail_vars>>

\* release: self._running_deployments.discard(deployment_id)
gate_release_discard(c) ==
    /\ caller[c].pc = "discard"
    /\ running_deployments' = release(running_deployments, caller[c].id)
    /\ caller' = [caller EXCEPT ![c].pc = "unlock"]
    /\ UNCHANGED <<gate_lock, max_concurrent, orch_vars, detail_vars>>

\* async with self._lock: exit, and the call returns.
gate_lock_exit(c) ==
    /\ caller[c].pc = "unlock"
    /\ gate_lock' = IF gate_lock = c THEN 0 ELSE gate_lock
    /\ caller' = [caller EXCEPT ![c].pc = "returned"]
    /\ UNCHANGED <<gate_state, orch_vars, detail_vars>>

\* A gate of capacity GateCapacity with some earlier deployments in flight.
GateInit ==
    /\ deployments = [d \in Ids |-> NoRow]
    /\ next_id = 1
    /\ audit_logs = {}
    /\ pc = [d \in Ids |-> "none"]
    /\ cancelled = [d \in Ids |-> FALSE]
    /\ cancel_requests = 0
    /\ rows_lost = 0
    /\ limits = [rows |-> 0]
    /\ ServersIdle
    /\ max_concurrent = GateCapacity
    /\ running_deployments \in
           {S \in SUBSET HeldIds : Cardinality(S) <= GateCapacity}
    /\ gate_lock = 0
    /\ caller = [c \in Callers |-> IdleCaller]

GateNext ==
    \/ \E c \in Callers : gate_call(c, "acquire", own_id(c))
    \/ \E c \in Callers, id \in GateIds : gate_call(c, "release", id)
    \/ \E c \in Callers : gate_lock_enter(c)
    \/ \E c \in Callers : gate_acquire_check(c)
    \/ \E c \in Callers : gate_acquire_insert(c)
    \/ \E c \in Callers : gate_release_discard(c)
    \/ \E c \in Callers : gate_lock_exit(c)

GateSpec == GateInit /\ [][GateNext]_vars

----------------------------------------------------------------------------
(* The LogBuffer of one deployment (LogSpec).  The deployment task appends
   from the event loop of its own thread, subscribers subscribe from the main
   event loop: their statements interleave.  _lock is taken to exclude. *)

\* Bounds of the log scenario: entries appended, size of the ring.
MaxEntries == 3
MaxRing == 2

\* A ring that refuses the new entry when it is full.
ring_append_keeps_oldest(buffer, entry) ==
    IF Len(buffer) = MaxRing THEN buffer ELSE Append(buffer, entry)

\* deque(maxlen=max_size).append(entry)
ring_append(buffer, entry) ==
    IF Len(buffer) = MaxRing THEN Append(Tail(buffer), entry)
    ELSE Append(buffer, entry)

log_frame == UNCHANGED <<orch_vars, gate_state, gate_vars, server_vars, remote,
                         writer_vars, log_buffers, request_vars>>

\* append, up to the lock: the entry enters the ring.  A replay that is
\* iterating over the ring at that moment will find the deque mutated.
append_buffer ==
    /\ log_pc.appender = "idle"
    /\ log_pc.entry < MaxEntries
    /\ LET entry == log_pc.entry + 1
       IN /\ log_buffer' = [log_buffer EXCEPT
                                !.buffer = ring_append(@, entry)]
          /\ log_pc' = [log_pc EXCEPT
                 !.appender = "lock",
                 !.entry = entry,
                 !.mutated = [s \in Subscribers |->
                     @[s] \/ log_pc.subscribe[s] = "replay"],
                 !.later = [s \in Subscribers |->
                     IF log_pc.subscribe[s] \in {"replay", "subscribed"}
                     THEN Append(@[s], entry) ELSE @[s]]]
    /\ log_frame

\* for entry in self.buffer: await queue.put(entry)
subscribed_queue(queue, buffer) == queue \o buffer

\* append, under the lock: the entry is put on the queue of every subscriber.
append_notify ==
    /\ log_pc.appender = "lock"
    /\ lock_free(log_buffer.lock)
    /\ log_buffer' = [log_buffer EXCEPT
           !.queues = [s \in Subscribers |->
               IF s \in log_buffer.subscribers
               THEN Append(@[s], log_pc.entry) ELSE @[s]]]
    /\ log_pc' = [log_pc EXCEPT !.appender = "idle"]
    /\ log_frame

\* subscribe: enter the lock, join the subscribers, start on the ring.
subscribe_enter(s) ==
    /\ log_pc.subscribe[s] = "idle"
    /\ lock_free(log_buffer.lock)
    /\ log_buffer' = [log_buffer EXCEPT
                          !.lock = s, !.subscribers = @ \cup {s}]
    /\ log_pc' = [log_pc EXCEPT
                      !.subscribe[s] = "replay",
                      !.mutated[s] = FALSE,
                      !.snapshot[s] = log_buffer.buffer]
    /\ log_frame

\* subscribe: the replay of the ring and the exit from the lock.  The
\* iteration raises RuntimeError when the deque changed under it; the queue
\* stays among the subscribers and is never returned.
subscribe_replay(s) ==
    /\ log_pc.subscribe[s] = "replay"
    /\ IF log_pc.mutated[s]
       THEN /\ log_buffer' = [log_buffer EXCEPT !.lock = 0]
            /\ log_pc' = [log_pc EXCEPT !.subscribe[s] = "raised"]
       ELSE /\ log_buffer' = [log_buffer EXCEPT
                   !.lock = 0,
                   !.queues[s] = subscribed_queue(@, log_buffer.buffer)]
            /\ log_pc' = [log_pc EXCEPT !.subscribe[s] = "subscribed"]
    /\ log_frame

\* No deployment is submitted; one task logs, subscribers come and go.
LogInit ==
    /\ InitOrch([rows |-> 0, cancels |-> 0, row_loss |-> 0, types |-> {},
                 health_check |-> {}, outcomes |-> {}, commits |-> {}],
                DefaultMaxConcurrent)
    /\ server_groups = <<>>
    /\ project = NoProject
    /\ loop = StartLoop
    /\ contacted = <<>>
    /\ failures = {}
    /\ remote = NoRemote
    /\ LogIdle

LogNext ==
    \/ append_buffer
    \/ append_notify
    \/ \E s \in Subscribers : subscribe_enter(s)
    \/ \E s \in Subscribers : subscribe_replay(s)

LogSpec == LogInit /\ [][LogNext]_vars

----------------------------------------------------------------------------
(* The DeploymentLogger of one deployment task (WriterSpec).  The coroutine
   of the task logs; a command run with execute_command_streaming blocks the
   thread and its callbacks create tasks on the event loop, which run when
   the coroutine next yields to the loop; the BatchLogWriter writes to the
   deployment_logs table. *)

\* BatchLogWriter.batch_size (50 in the code), scaled to the scenario.
BatchSize == 2

\* str(e) of an exception raised by the commit of a flush.
WriteFailed == "database error"

\* A LogEntry / PendingLogEntry: the message (logger calls are numbered in the
\* order they are made), its kind, the time _log read off the clock.
entry_of(call, time) ==
    [content |-> call.content, kind |-> call.kind, timestamp |-> time]

\* DeploymentLog(level, content, created_at=entry.timestamp) of an entry
row_of(entry) ==
    [content |-> entry.content, kind |-> entry.kind,
     created_at |-> entry.timestamp]

RECURSIVE rows_of(_)
rows_of(pending) ==
    IF pending = <<>> THEN <<>>
    ELSE <<row_of(Head(pending))>> \o rows_of(Tail(pending))

\* A flush that commits and forgets to clear the list.
flush_keeps_pending(writer, rows, committed) ==
    IF writer.pending_logs = <<>>
    THEN [writer |-> writer, rows |-> rows, raised |-> FALSE]
    ELSE IF committed
         THEN [writer |-> writer,
               rows |-> rows \o rows_of(writer.pending_logs),
               raised |-> FALSE]
         ELSE [writer |-> writer, rows |-> rows, raised |-> TRUE]

\* BatchLogWriter._flush: db.add of one row per pending entry, one commit,
\* pending_logs.clear().  The commit returns, or raises: then nothing is
\* written and the list keeps its entries.
flush(writer, rows, committed) ==
    IF writer.pending_logs = <<>>
    THEN [writer |-> writer, rows |-> rows, raised |-> FALSE]
    ELSE IF committed
         THEN [writer |-> [writer EXCEPT !.pending_logs = <<>>],
               rows |-> rows \o rows_of(writer.pending_logs),
               raised |-> FALSE]
         ELSE [writer |-> writer, rows |-> rows, raised |-> TRUE]

\* BatchLogWriter.add_log: append, and flush when batch_size is reached.
add_log(writer, rows, entry, committed) ==
    LET appended == [writer EXCEPT !.pending_logs = Append(@, entry)]
    IN IF Len(appended.pending_logs) >= BatchSize
       THEN flush(appended, rows, committed)
       ELSE [writer |-> appended, rows |-> rows, raised |-> FALSE]

\* The objects a DeploymentLogger writes to, and its clock.
LoggerState ==
    [buffer |-> log_buffer.buffer, writer |-> batch_writer,
     rows |-> deployment_logs, clock |-> event_loop.clock, raised |-> FALSE]

\* DeploymentLogger._log: read the clock, append to the ring (the buffer has
\* no subscriber to notify), hand the entry to the batch writer.
log(st, call, committed) ==
    LET entry == entry_of(call, st.clock + 1)
        added == add_log(st.writer, st.rows, entry, committed)
    IN [buffer |-> ring_append(st.buffer, entry), writer |-> added.writer,
        rows |-> added.rows, clock |-> st.clock + 1, raised |-> added.raised]

\* What logger calls leave behind them.
logger_becomes(st) ==
    /\ log_buffer' = [log_buffer EXCEPT !.buffer = st.buffer]
    /\ batch_writer' = st.writer
    /\ deployment_logs' = st.rows

\* The event loop followed is that of the thread of the deployment created
\* last (row 1 is of an earlier run).
runs_on_loop(d) == d > 1 /\ d = next_id - 1

writer_frame == UNCHANGED <<next_id, audit_logs, cancelled, cancel_requests,
                            rows_lost, limits, gate_state, gate_vars,
                            server_vars, remote, log_pc, log_buffers,
                            request_vars>>

\* The coroutine of task d has brought its row to `row` and awaits a logger
\* call.  The call returns and the task goes on at next_pc; or the flush
\* raises: inside the except branch of deploy() the exception leaves deploy(),
\* elsewhere the except branch records FAILED, logs the failure and re-raises.
coroutine_logs(d, row, kind, next_pc, loop_pc, in_except) ==
    /\ lock_free(log_buffer.lock)
    /\ \E committed \in limits.commits, recorded \in limits.commits,
       again \in limits.commits :
        LET call == [content |-> event_loop.calls + 1, kind |-> kind]
            st == log(LoggerState, call, committed)
            failure == [content |-> event_loop.calls + 2, kind |-> "error"]
            st2 == log(st, failure, again)
        IN IF ~st.raised
           THEN /\ logger_becomes(st)
                /\ event_loop' = [event_loop EXCEPT !.calls = @ + 1,
                                      !.clock = st.clock, !.pc = loop_pc]
                /\ deployments' = [deployments EXCEPT ![d] = row]
                /\ pc' = [pc EXCEPT ![d] = next_pc]
           ELSE IF in_except
           THEN /\ logger_becomes(st)
                /\ event_loop' = [event_loop EXCEPT !.calls = @ + 1,
                                      !.clock = st.clock, !.pc = "running"]
                /\ deployments' = [deployments EXCEPT ![d] = row]
                /\ pc' = [pc EXCEPT ![d] = "raised"]
           ELSE /\ logger_becomes(st2)
                /\ event_loop' = [event_loop EXCEPT !.calls = @ + 2,
                                      !.clock = st2.clock, !.pc = "running"]
                /\ deployments' = [deployments EXCEPT ![d] =
                       IF recorded THEN deploy_failed(row, WriteFailed)
                       ELSE row]
                /\ pc' = [pc EXCEPT ![d] = "raised"]

\* await self.logger.info(...) in a stage of the task
logger_info(d) ==
    /\ pc[d] \in StagePcs
    /\ event_loop.pc = "running"
    /\ event_loop.calls < MaxEntries
    /\ coroutine_logs(d, deployments[d], "info", pc[d], "running", FALSE)
    /\ writer_frame

\* execute_command_streaming(command, on_stdout, on_stderr) for the restart
\* script or for a command probe: every line read calls back, and the
\* callback creates a task that will log the line.  The call returns when
\* the command exited.
execute_command_streaming(d, lines) ==
    /\ pc[d] \in {"deploying", "health_checking"}
    /\ event_loop.pc = "running"
    /\ event_loop.calls + lines < MaxEntries
    /\ event_loop' = [event_loop EXCEPT
           !.pc = "streamed",
           !.calls = @ + lines,
           !.ready = @ \o [i \in 1..lines |->
                              [content |-> event_loop.calls + i,
                               kind |-> "stream"]]]
    /\ UNCHANGED <<deployments, pc, log_buffer, batch_writer,
                   deployment_logs>>
    /\ writer_frame

\* await self.logger.info/error(f"脚本执行完成，退出码: {exit_code}"), or
\* await self.logger.info(f"命令退出码: {exit_code}") of the probe
log_exit_code(d) ==
    /\ pc[d] \in {"deploying", "health_checking"}
    /\ event_loop.pc = "streamed"
    /\ coroutine_logs(d, deployments[d], "exit", pc[d], "running", FALSE)
    /\ writer_frame

\* The coroutine yields to the event loop: await asyncio.sleep(interval)
\* between the attempts of a probe.
coroutine_suspend(d) ==
    /\ pc[d] = "health_checking"
    /\ event_loop.pc = "running"
    /\ event_loop' = [event_loop EXCEPT !.pc = "suspended"]
    /\ UNCHANGED <<deployments, pc, log_buffer, batch_writer,
                   deployment_logs>>
    /\ writer_frame

\* The event loop runs the oldest task created on it: the line is logged.
\* An exception of the flush stays in the task, which nobody awaits.  The
\* loop runs the tasks while the coroutine is suspended, and once more when
\* run_until_complete finishes.  The lock of the LogBuffer is free.
run_ready(d) ==
    /\ event_loop.ready # <<>>
    /\ runs_on_loop(d)
    /\ \/ pc[d] \in StagePcs /\ event_loop.pc = "suspended"
       \/ pc[d] = "done" /\ event_loop.pc # "closed"
    /\ lock_free(log_buffer.lock)
    /\ \E committed \in limits.commits :
          LET st == log(LoggerState, Head(event_loop.ready), committed)
          IN /\ logger_becomes(st)
             /\ event_loop' = [event_loop EXCEPT !.ready = Tail(@),
                                                 !.clock = st.clock]
    /\ UNCHANGED <<deployments, pc>>
    /\ writer_frame

\* The sleep is over: the loop resumes the coroutine after the tasks that
\* were ready before it.
coroutine_resume(d) ==
    /\ pc[d] \in StagePcs
    /\ event_loop.pc = "suspended"
    /\ event_loop.ready = <<>>
    /\ event_loop' = [event_loop EXCEPT !.pc = "running"]
    /\ UNCHANGED <<deployments, pc, log_buffer, batch_writer,
                   deployment_logs>>
    /\ writer_frame

\* _full_deploy, step 4: the servers are deployed to and the project enables
\* health checks.
full_deploy_health_check(d) ==
    /\ event_loop.pc = "running"
    /\ deploy_to_servers(d, TRUE)
    /\ deployments[d].health_check_enabled

\* _full_deploy, step 5: after the probes, or after the servers when the
\* project has no health checks, SUCCESS is recorded, then "Deployment
\* completed successfully" is logged.
full_deploy_success(d) ==
    /\ \/ pc[d] = "deploying" /\ ~deployments[d].health_check_enabled
       \/ pc[d] = "health_checking"
    /\ event_loop.pc = "running"
    /\ coroutine_logs(d, update_status(deployments[d], "SUCCESS", None),
                      "info", "ended", "running", FALSE)
    /\ writer_frame

\* deploy(): a stage raised; the except branch records FAILED (its commit
\* returns or raises), logs "Deployment failed" and re-raises.
deploy_except(d) ==
    /\ pc[d] \in StagePcs
    /\ event_loop.pc = "running"
    /\ \E committed \in limits.commits :
          coroutine_logs(d, IF committed
                            THEN deploy_failed(deployments[d], "Stage failed")
                            ELSE deployments[d],
                         "error", "raised", "running", TRUE)
    /\ writer_frame

\* One FULL deployment of a project with or without health checks; its clone
\* and build stages return; commits of the database return or raise.
WriterInit ==
    /\ InitOrch([rows |-> 1, cancels |-> 0, row_loss |-> 0,
                 types |-> {"FULL"}, health_check |-> BOOLEAN,
                 outcomes |-> {TRUE}, commits |-> BOOLEAN],
                DefaultMaxConcurrent)
    /\ server_groups = <<>>
    /\ project = NoProject
    /\ loop = StartLoop
    /\ contacted = <<>>
    /\ failures = {}
    /\ remote = NoRemote
    /\ LogIdle

WriterNext ==
    \/ \E type \in limits.types, hc \in limits.health_check :
          create_deployment(type, hc)
    \/ \E d \in Ids : execute_deployment(d)
    \/ \E d \in Ids, ok \in limits.outcomes : clone_repo(d, ok)
    \/ \E d \in Ids, ok \in limits.outcomes : build_project(d, ok)
    \/ \E d \in Ids : logger_info(d)
    \/ \E d \in Ids, lines \in 0..MaxEntries : execute_command_streaming(d, lines)
    \/ \E d \in Ids : log_exit_code(d)
    \/ \E d \in Ids : coroutine_suspend(d)
    \/ \E d \in Ids : run_ready(d)
    \/ \E d \in Ids : coroutine_resume(d)
    \/ \E d \in Ids : full_deploy_health_check(d)
    \/ \E d \in Ids : full_deploy_success(d)
    \/ \E d \in Ids : deploy_except(d)
    \/ \E d \in Ids : execute_deployment_finally(d)
    \/ \E d \in Ids : run_deployment_sync_finally(d)

WriterSpec == WriterInit /\ [][WriterNext]_vars

\* The same scenario with a database whose commits return.
BatchInit ==
    /\ InitOrch([rows |-> 1, cancels |-> 0, row_loss |-> 0,
                 types |-> {"FULL"}, health_check |-> BOOLEAN,
                 outcomes |-> {TRUE}, commits |-> {TRUE}],
                DefaultMaxConcurrent)
    /\ server_groups = <<>>
    /\ project = NoProject
    /\ loop = StartLoop
    /\ contacted = <<>>
    /\ failures = {}
    /\ remote = NoRemote
    /\ LogIdle

BatchSpec == BatchInit /\ [][WriterNext]_vars

----------------------------------------------------------------------------
(* A client that polls GET /api/deployments/{deployment_id} for the logs of
   the deployment while its task logs (PollSpec). *)

\* The limits of the two queries (500 and 100 in the code), scaled to the
\* scenario, and the number of requests the client sends.
InitialLimit == 3
IncrementLimit == 2
MaxPolls == 3

\* The ids of the rows of the deployment: its rows are numbered in the order
\* they were inserted.
log_ids == [i \in 1..Len(deployment_logs) |-> i]

\* The first elements of a sequence, n at most.
first_rows(seq, n) == SubSeq(seq, 1, Min(n, Len(seq)))

RECURSIVE max_id(_)
\* max((log.id for log in logs), default=0)
max_id(logs) ==
    IF logs = <<>> THEN 0
    ELSE LET m == max_id(Tail(logs))
         IN IF Head(logs) > m THEN Head(logs) ELSE m

\* The last n elements of a sequence.
Last(seq, n) == SubSeq(seq, Len(seq) - n + 1, Len(seq))

\* logs_query.all().  since_id is <<>> when the request has none, else <<n>>.
\* With since_id: the rows with a greater id, ascending, 100 at most;
\* without it: the 500 rows with the greatest ids, ascending.
logs_query(ids, since_id) ==
    IF since_id # <<>>
    THEN first_rows(SelectSeq(ids, LAMBDA i : i > since_id[1]),
                    IncrementLimit)
    ELSE Last(ids, Min(InitialLimit, Len(ids)))

\* GET /api/deployments/{deployment_id}?since_id=...: the client sends the
\* max_log_id of the response before, and nothing on its first request.
get_deployment(d) ==
    /\ runs_on_loop(d)
    /\ Exists(d)
    /\ poller.polls < MaxPolls
    /\ LET logs == logs_query(log_ids, poller.since_id)
       IN poller' = [since_id |-> <<max_id(logs)>>,
                     polls |-> poller.polls + 1,
                     asked |-> poller.since_id, logs |-> logs,
                     received |-> poller.received \o logs]
    /\ UNCHANGED <<orch_vars, gate_state, gate_vars, server_vars, remote,
                   log_vars, log_buffers, response, artifacts_dir,
                   unit_vars>>

PollNext ==
    \/ WriterNext
    \/ \E d \in Ids : get_deployment(d)

PollSpec == BatchInit /\ [][PollNext]_vars

----------------------------------------------------------------------------
(* The event loop of a deployment task to its end, while clients open the log
   stream of the deployment on the main event loop (LoopSpec). *)

\* The event loop runs the oldest task created on it while a subscribe of a
\* stream holds the lock of the LogBuffer: _log reads the clock,
\* LogBuffer.append puts the entry in the ring and waits for the lock; the
\* task is suspended.  A replay iterating over the ring finds it mutated.
run_ready_waits(d) ==
    /\ event_loop.ready # <<>>
    /\ runs_on_loop(d)
    /\ \/ pc[d] \in StagePcs /\ event_loop.pc = "suspended"
       \/ pc[d] = "done" /\ event_loop.pc # "closed"
    /\ ~lock_free(log_buffer.lock)
    /\ LET entry == entry_of(Head(event_loop.ready), event_loop.clock + 1)
       IN /\ log_buffer' = [log_buffer EXCEPT
                                !.buffer = ring_append(@, entry)]
          /\ event_loop' = [event_loop EXCEPT
                                !.ready = Tail(@),
                                !.clock = @ + 1,
                                !.waiting = Append(@, entry)]
    /\ log_pc' = [log_pc EXCEPT
           !.mutated = [s \in Subscribers |->
               @[s] \/ log_pc.subscribe[s] = "replay"]]
    /\ UNCHANGED <<deployments, pc, batch_writer, deployment_logs, next_id,
                   audit_logs, cancelled, cancel_requests, rows_lost, limits,
                   gate_state, gate_vars, server_vars, remote, log_buffers,
                   request_vars>>

\* The lock was released and the loop runs the task that waited for it, in
\* an iteration after the one that suspended it: the entry is handed to the
\* batch writer.
waiting_resume(d) ==
    /\ event_loop.waiting # <<>>
    /\ runs_on_loop(d)
    /\ pc[d] \in StagePcs
    /\ event_loop.pc = "suspended"
    /\ lock_free(log_buffer.lock)
    /\ \E committed \in limits.commits :
          LET added == add_log(batch_writer, deployment_logs,
                               Head(event_loop.waiting), committed)
          IN /\ batch_writer' = added.writer
             /\ deployment_logs' = added.rows
    /\ event_loop' = [event_loop EXCEPT !.waiting = Tail(@)]
    /\ UNCHANGED <<deployments, pc, log_buffer>>
    /\ writer_frame

\* run_deployment_sync: _run() has finished; run_until_complete runs the
\* iteration that holds the tasks created before, then the callback that
\* stops the loop, and loop.close() follows.  A task that was suspended in
\* that iteration is not run again.
loop_close(d) ==
    /\ runs_on_loop(d)
    /\ pc[d] = "done"
    /\ event_loop.pc # "closed"
    /\ event_loop.ready = <<>>
    /\ event_loop' = [event_loop EXCEPT !.pc = "closed"]
    /\ UNCHANGED <<deployments, pc, log_buffer, batch_writer,
                   deployment_logs>>
    /\ writer_frame

\* stream_deployment_logs: a request for the log stream of deployment d gets
\* the buffer the map holds for d, the one the logger of the task appends to,
\* and subscribes to it.
stream_deployment_logs(s, d) ==
    /\ runs_on_loop(d)
    /\ d \in log_buffers
    /\ subscribe_enter(s)

LoopNext ==
    \/ WriterNext
    \/ \E s \in Subscribers, d \in Ids : stream_deployment_logs(s, d)
    \/ \E s \in Subscribers : subscribe_replay(s)
    \/ \E d \in Ids : run_ready_waits(d)
    \/ \E d \in Ids : waiting_resume(d)
    \/ \E d \in Ids : loop_close(d)

LoopSpec == BatchInit /\ [][LoopNext]_vars

----------------------------------------------------------------------------
(* The validation of POST /api/deployments and of POST
   /api/deployments/{id}/rollback (RequestSpec): requests with every choice of
   project and server groups, answered on the main event loop. *)

\* Server groups a request selects, at most.
MaxSelected == 2
\* Rows the requests may create.
MaxRequests == 2

EnvironmentType == {"development", "production"}

\* A project id or a server group id of a request: the row it names has an
\* environment, or is absent.
Named == EnvironmentType \cup {"absent"}

GroupSelections ==
    UNION {[1..n -> Named] : n \in 0..MaxSelected}

\* EnvironmentService.validate_deployment_environment raises HTTPException.
validate_deployment_environment(project_env, groups) ==
    \/ groups = <<>>
    \/ \E i \in 1..Len(groups) : groups[i] # project_env

\* The status code of POST /api/deployments.  The body is a
\* DeploymentCreate: server_group_ids has min_length=1, and a body that
\* fails the schema is answered 422 before the handler runs.
create_code(project_env, groups) ==
    IF Len(groups) < 1 THEN 422
    ELSE IF project_env = "absent" THEN 404
    ELSE IF \E i \in 1..Len(groups) : groups[i] = "absent" THEN 404
    ELSE IF validate_deployment_environment(project_env, groups) THEN 400
    ELSE 201

\* The status code of POST /api/deployments/{id}/rollback.  The body is a
\* dict; the environment is that of the project of the source deployment.
rollback_code(src, project_env, groups) ==
    IF ~Exists(src) THEN 404
    ELSE IF ~deployments[src].artifacts THEN 400
    ELSE IF project_env = "absent" THEN 404
    ELSE IF \E i \in 1..Len(groups) : groups[i] = "absent" THEN 404
    ELSE IF validate_deployment_environment(project_env, groups) THEN 400
    ELSE 200

request_frame == UNCHANGED <<cancelled, cancel_requests, rows_lost, limits,
                             max_concurrent, gate_vars, server_vars, remote,
                             log_vars, log_buffers, poller, artifacts_dir,
                             unit_vars>>

\* POST /api/deployments
post_deployment(type, hc, project_env, groups) ==
    /\ LoopFree
    /\ LET code == create_code(project_env, groups)
       IN /\ response' = [endpoint |-> "create", source |-> 0,
                          project |-> project_env, groups |-> groups,
                          code |-> code]
          /\ IF code = 201
             THEN create_validated(type, hc)
             ELSE UNCHANGED <<deployments, next_id, audit_logs,
                              running_deployments, pc>>
    /\ request_frame

\* POST /api/deployments/{id}/rollback
post_rollback(src, project_env, groups) ==
    /\ LoopFree
    /\ LET code == rollback_code(src, project_env, groups)
       IN /\ response' = [endpoint |-> "rollback", source |-> src,
                          project |-> project_env, groups |-> groups,
                          code |-> code]
          /\ IF code = 200
             THEN /\ rollback_validated(src)
                  /\ UNCHANGED running_deployments
             ELSE UNCHANGED <<deployments, next_id, audit_logs,
                              running_deployments, pc>>
    /\ request_frame

\* Requests only: no task runs between them.
RequestInit ==
    /\ InitOrch([rows |-> MaxRequests, cancels |-> 0, row_loss |-> 0,
                 types |-> DeploymentType, health_check |-> {FALSE},
                 outcomes |-> {TRUE}, commits |-> {TRUE}],
                DefaultMaxConcurrent)
    /\ server_groups = <<>>
    /\ project = NoProject
    /\ loop = StartLoop
    /\ contacted = <<>>
    /\ failures = {}
    /\ remote = NoRemote
    /\ LogIdle

RequestNext ==
    \/ \E type \in limits.types, hc \in limits.health_check,
          p \in Named, groups \in GroupSelections :
          post_deployment(type, hc, p, groups)
    \/ \E src \in Ids, p \in Named, groups \in GroupSelections :
          post_rollback(src, p, groups)

RequestSpec == RequestInit /\ [][RequestNext]_vars

----------------------------------------------------------------------------
(* Build-package and the reaper of old artifacts (ArtifactSpec) *)

MaxProjects == 2
MaxBuilds == 4
ProjectIds == 1..MaxProjects

\* The files of the directory that a DeploymentArtifact record of a
\* deployment of the project names.  A file is artifact_<timestamp>.zip and
\* is known here by its timestamp, which is also the order of its mtime.
project_file_paths(store, project_id) ==
    {r.file_path : r \in {x \in store.records : x.project_id = project_id}}

Newest(files) == CHOOSE f \in files : \A g \in files : g <= f

\* cleanup_artifacts(project_id, keep_latest=True): of the files on disk
\* that a record of the project names, all but the newest are unlinked; an
\* unlink that raises OSError is logged and the file stays.
cleanup_artifacts(store, project_id, locked) ==
    LET artifacts == store.files \cap project_file_paths(store, project_id)
        artifacts_to_delete == IF Cardinality(artifacts) > 1
                               THEN artifacts \ {Newest(artifacts)}
                               ELSE {}
    IN [store EXCEPT !.files = @ \ (artifacts_to_delete \ locked),
                     !.deleted = artifacts_to_delete \ locked,
                     !.failed = artifacts_to_delete \cap locked]

\* BuildService._create_artifact: the archive artifact_<time>.zip is
\* written, then the reaper runs for the project.
create_artifact(store, project_id, locked) ==
    LET artifact_path == store.clock + 1
    IN cleanup_artifacts([store EXCEPT !.files = @ \cup {artifact_path},
                                       !.clock = artifact_path],
                         project_id, locked)

\* DeployService._build_project: BuildService.build packages the output and
\* returns; then the DeploymentArtifact record of the new file is inserted.
\* A build that fails writes no archive and no record.
build_package(project_id, ok, locked) ==
    /\ artifacts_dir.clock < MaxBuilds
    /\ artifacts_dir' =
          IF ok
          THEN LET after == create_artifact(artifacts_dir, project_id, locked)
               IN [after EXCEPT
                      !.records = @ \cup {[file_path |-> after.clock,
                                           project_id |-> project_id]},
                      !.built = <<project_id, after.clock>>]
          ELSE [artifacts_dir EXCEPT !.clock = @ + 1, !.built = <<>>,
                                     !.deleted = {}, !.failed = {}]
    /\ UNCHANGED <<orch_vars, gate_state, gate_vars, server_vars, remote,
                   log_vars, log_buffers, poller, response, unit_vars>>

\* Builds only, of the projects in any order, on an empty directory.
ArtifactInit == RequestInit

ArtifactNext ==
    \E project_id \in ProjectIds, ok \in BOOLEAN,
       locked \in SUBSET artifacts_dir.files :
          build_package(project_id, ok, locked)

ArtifactSpec == ArtifactInit /\ [][ArtifactNext]_vars

----------------------------------------------------------------------------
(* Builds that package at the same time (PackageSpec).  Every deployment
   task builds in a thread of its own; the directory is shared. *)

MaxThreads == 2
Threads == 1..MaxThreads

\* What the file at a path holds: the archive of the build that wrote it
\* last, 0 when there is no file.  The SHA-256 of a file stands for its
\* content, two archives of different builds having different digests.
content_at(store, path) ==
    IF \E c \in store.content : c[1] = path
    THEN (CHOOSE c \in store.content : c[1] = path)[2]
    ELSE 0

\* time.time() moves to the next second.
time_passes ==
    /\ artifacts_dir.clock < MaxBuilds
    /\ artifacts_dir' = [artifacts_dir EXCEPT !.clock = @ + 1]
    /\ UNCHANGED <<orch_vars, gate_state, gate_vars, server_vars, remote,
                   log_vars, log_buffers, poller, response, unit_vars>>

\* BuildService._create_artifact in the thread of one more build: the
\* archive is written to artifact_<int(time.time())>.zip, opened with mode
\* "w", and the reaper runs for the project.
thread_create_artifact(project_id) ==
    /\ Len(artifacts_dir.threads) < MaxThreads
    /\ LET b == Len(artifacts_dir.threads) + 1
           artifact_path == artifacts_dir.clock
           zipped == [artifacts_dir EXCEPT
                         !.files = @ \cup {artifact_path},
                         !.content = {c \in @ : c[1] # artifact_path}
                                        \cup {<<artifact_path, b>>}]
           after == cleanup_artifacts(zipped, project_id, {})
       IN artifacts_dir' =
             [after EXCEPT
                 !.content = {c \in @ : c[1] \in after.files},
                 !.threads = Append(@, [pc |-> "packaged",
                                        project_id |-> project_id,
                                        artifact_path |-> artifact_path,
                                        checksum |-> 0, found |-> 0])]
    /\ UNCHANGED <<orch_vars, gate_state, gate_vars, server_vars, remote,
                   log_vars, log_buffers, poller, response, unit_vars>>

\* BuildService.build after _create_artifact: _calculate_checksum reads the
\* file at the path; a missing file raises and the build result is FAILED.
thread_calculate_checksum(b) ==
    /\ b \in 1..Len(artifacts_dir.threads)
    /\ artifacts_dir.threads[b].pc = "packaged"
    /\ LET path == artifacts_dir.threads[b].artifact_path
       IN artifacts_dir' =
             IF path \in artifacts_dir.files
             THEN [artifacts_dir EXCEPT
                      !.threads[b].pc = "built",
                      !.threads[b].checksum = content_at(artifacts_dir, path)]
             ELSE [artifacts_dir EXCEPT !.threads[b].pc = "failed"]
    /\ UNCHANGED <<orch_vars, gate_state, gate_vars, server_vars, remote,
                   log_vars, log_buffers, poller, response, unit_vars>>

\* DeployService._build_project after build() returned SUCCESS: the
\* DeploymentArtifact record with the path and the digest is inserted.
\* `found` keeps what the file at the path held at that moment.
thread_create_record(b) ==
    /\ b \in 1..Len(artifacts_dir.threads)
    /\ artifacts_dir.threads[b].pc = "built"
    /\ LET t == artifacts_dir.threads[b]
       IN artifacts_dir' =
             [artifacts_dir EXCEPT
                 !.records = @ \cup {[file_path |-> t.artifact_path,
                                      project_id |-> t.project_id]},
                 !.threads[b].pc = "recorded",
                 !.threads[b].found =
                     content_at(artifacts_dir, t.artifact_path)]
    /\ UNCHANGED <<orch_vars, gate_state, gate_vars, server_vars, remote,
                   log_vars, log_buffers, poller, response, unit_vars>>

PackageNext ==
    \/ time_passes
    \/ \E project_id \in ProjectIds : thread_create_artifact(project_id)
    \/ \E b \in Threads : thread_calculate_checksum(b)
    \/ \E b \in Threads : thread_create_record(b)

PackageSpec == RequestInit /\ [][PackageNext]_vars

----------------------------------------------------------------------------
(* The files of the Git stages (WorkspaceSpec): what CLONING and BUILDING
   put on the local disk and what they remove, for one task after the
   other. *)

MaxRuns == 2

\* Everything but the units.
base_vars == <<orch_vars, gate_state, gate_vars, server_vars, remote,
               log_vars, log_buffers, poller, response, artifacts_dir>>

\* How the project authenticates: a token (HTTPS), an SSH key, or nothing.
GitAuth == {"none", "token", "ssh_key"}

\* GitService._setup_auth: the credential helper of a token or the key file
\* of an SSH key is written, named after the GitService instance, which is
\* one per stage of a deployment.
setup_auth(ws) ==
    CASE ws.auth = "token" ->
           [ws EXCEPT !.files = @ \cup {<<"cred_helper", ws.id, ws.stage>>}]
      [] ws.auth = "ssh_key" ->
           [ws EXCEPT !.files = @ \cup {<<"key", ws.id, ws.stage>>}]
      [] OTHER -> ws

\* GitService.cleanup: the clone (repo_path, set once clone() returned) and
\* the instance's credential helper and key file are removed.
cleanup(ws, cloned) ==
    [ws EXCEPT !.files =
        {f \in @ : ~ \/ f \in {<<"cred_helper", ws.id, ws.stage>>,
                                 <<"key", ws.id, ws.stage>>}
                     \/ cloned /\ f = <<"repo", ws.id, ws.stage>>}]

\* shutil.rmtree(work_dir, ignore_errors=True)
rmtree_work_dir(ws) ==
    [ws EXCEPT !.files = @ \ {<<"repo", ws.id, "BUILDING">>}]

\* The stage whose Git step raised: git_context (CLONING) runs cleanup in
\* its finally; in _build_project (BUILDING) clone and checkout stand before
\* the try whose finally cleans up, and DeploymentError leaves at once.
git_failed(ws, cloned) ==
    [(IF ws.stage = "CLONING" THEN cleanup(ws, cloned) ELSE ws)
        EXCEPT !.pc = "idle", !.stage = "none"]

\* A task enters CLONING: _clone_repo opens git_context.
workspace_start(auth) ==
    /\ workspace.pc = "idle"
    /\ workspace.id < MaxRuns
    /\ workspace' = [workspace EXCEPT !.id = @ + 1, !.pc = "clone",
                                      !.stage = "CLONING", !.auth = auth]
    /\ UNCHANGED <<base_vars, probe, builder, buffer_map, repository>>

\* GitService.clone: in BUILDING into work_dir/build_<id>, which
\* _build_project has created and clone() removes first; in CLONING into a
\* temporary directory.  A clone that fails leaves no directory.
git_clone(ok) ==
    /\ workspace.pc = "clone"
    /\ LET ws == setup_auth(workspace)
       IN workspace' =
             IF ok
             THEN [ws EXCEPT !.pc = "checkout",
                             !.files = @ \cup {<<"repo", ws.id, ws.stage>>}]
             ELSE git_failed(ws, FALSE)
    /\ UNCHANGED <<base_vars, probe, builder, buffer_map, repository>>

\* GitService.checkout_branch
git_checkout(ok) ==
    /\ workspace.pc = "checkout"
    /\ LET ws == setup_auth(workspace)
       IN workspace' =
             IF ok
             THEN [ws EXCEPT !.pc = IF ws.stage = "CLONING"
                                    THEN "get_info" ELSE "build"]
             ELSE git_failed(ws, TRUE)
    /\ UNCHANGED <<base_vars, probe, builder, buffer_map, repository>>

\* _clone_repo inside git_context: get_info, the commit of the hash and the
\* message; whether they return or raise, git_context cleans up.  After a
\* success the task enters BUILDING and creates work_dir/build_<id>.
clone_repo_exit(ok) ==
    /\ workspace.pc = "get_info"
    /\ LET ws == cleanup(workspace, TRUE)
       IN workspace' =
             IF ok
             THEN [ws EXCEPT !.pc = "clone", !.stage = "BUILDING"]
             ELSE [ws EXCEPT !.pc = "idle", !.stage = "none"]
    /\ UNCHANGED <<base_vars, probe, builder, buffer_map, repository>>

\* _build_project inside its try: the build and the artifact record; the
\* finally runs GitService.cleanup and removes work_dir.
build_project_exit(ok) ==
    /\ workspace.pc = "build"
    /\ workspace' = [rmtree_work_dir(cleanup(workspace, TRUE))
                        EXCEPT !.pc = "idle", !.stage = "none"]
    /\ UNCHANGED <<base_vars, probe, builder, buffer_map, repository>>

WorkspaceNext ==
    \/ \E auth \in GitAuth : workspace_start(auth)
    \/ \E ok \in BOOLEAN : git_clone(ok)
    \/ \E ok \in BOOLEAN : git_checkout(ok)
    \/ \E ok \in BOOLEAN : clone_repo_exit(ok)
    \/ \E ok \in BOOLEAN : build_project_exit(ok)

WorkspaceSpec == RequestInit /\ [][WorkspaceNext]_vars

----------------------------------------------------------------------------
(* One health check of one server (ProbeSpec): the retry loop of
   _check_http, _check_tcp and _check_command. *)

MaxRetries == 3

HealthCheckType == {"http", "tcp", "command"}

\* What a check can lack: the value of its type (health_check_url,
\* health_check_port, health_check_command) and, for a command, the SSH
\* connection and the project's upload_path.
Lacks == {"nothing", "value", "ssh_connection", "upload_path"}

\* The tests before the loop: TRUE when HealthCheckError is raised.
config_error(type, lacks) ==
    \/ lacks = "value"
    \/ type = "command" /\ lacks \in {"ssh_connection", "upload_path"}

\* What one attempt does: the probe answers healthy, answers unhealthy
\* (status code, connect_ex result, exit code), or something raises.
AttemptOutcomes == {"healthy", "unhealthy", "raises"}

\* `if attempt < retries`: the test before asyncio.sleep(interval).
sleep_always(attempt, retries) == TRUE

sleep_due(attempt, retries) == attempt < retries

\* HealthCheckService.check up to the loop of the configured type.
check(type, lacks, retries) ==
    /\ probe.pc = "idle"
    /\ probe' = IF config_error(type, lacks)
                THEN [probe EXCEPT !.pc = "returned", !.type = type,
                                   !.retries = retries,
                                   !.result = "HealthCheckError"]
                ELSE IF retries = 0
                THEN [probe EXCEPT !.pc = "returned", !.type = type,
                                   !.result = "false"]
                ELSE [probe EXCEPT !.pc = "attempting", !.type = type,
                                   !.retries = retries, !.attempt = 1]
    /\ UNCHANGED <<base_vars, workspace, builder, buffer_map, repository>>

\* One turn of `for attempt in range(1, retries + 1)`: the try block with
\* its return True, the except clauses, the test for the sleep.
check_attempt(outcome) ==
    /\ probe.pc = "attempting"
    /\ probe' =
         IF outcome = "healthy"
         THEN [probe EXCEPT !.pc = "returned", !.result = "true",
                            !.done = Append(@, outcome)]
         ELSE IF sleep_due(probe.attempt, probe.retries)
         THEN [probe EXCEPT !.pc = "sleeping", !.done = Append(@, outcome)]
         ELSE IF probe.attempt < probe.retries
         THEN [probe EXCEPT !.attempt = @ + 1, !.done = Append(@, outcome)]
         ELSE [probe EXCEPT !.pc = "returned", !.result = "false",
                            !.done = Append(@, outcome)]
    /\ UNCHANGED <<base_vars, workspace, builder, buffer_map, repository>>

\* await asyncio.sleep(interval), then the next turn of the loop or, when
\* the range is used up, its end.
check_sleep ==
    /\ probe.pc = "sleeping"
    /\ probe' =
         IF probe.attempt < probe.retries
         THEN [probe EXCEPT !.pc = "attempting", !.attempt = @ + 1,
                            !.done = Append(@, "sleep")]
         ELSE [probe EXCEPT !.pc = "returned", !.result = "false",
                            !.done = Append(@, "sleep")]
    /\ UNCHANGED <<base_vars, workspace, builder, buffer_map, repository>>

\* perform_health_check returns; the next server is checked.
check_again ==
    /\ probe.pc = "returned"
    /\ probe' = NoProbe
    /\ UNCHANGED <<base_vars, workspace, builder, buffer_map, repository>>

ProbeNext ==
    \/ \E type \in HealthCheckType, lacks \in Lacks, retries \in 0..MaxRetries :
          check(type, lacks, retries)
    \/ \E outcome \in AttemptOutcomes : check_attempt(outcome)
    \/ check_sleep
    \/ check_again

ProbeSpec == RequestInit /\ [][ProbeNext]_vars

----------------------------------------------------------------------------
(* One BuildService.build (BuilderSpec): the install step and the build
   script.  A command is known by its text; "None" is no command. *)

ProjectType == {"frontend", "backend", "java"}
InstallScripts == {"None", "make deps"}
ExitCodes == {0, 1, 127}

\* BuildService._get_install_command
get_install_command(b) ==
    IF ~b.auto_install THEN "None"
    ELSE IF b.install_script # "None" THEN b.install_script
    ELSE CASE b.project_type = "frontend" -> "npm install"
           [] b.project_type = "java" -> "mvn dependency:resolve"
           [] OTHER -> "None"

\* BuildService(...) as _build_project constructs it from the project.
build_service(auto_install, install_script, project_type) ==
    /\ builder.pc = "idle"
    /\ builder' = [NoBuilder EXCEPT !.pc = "install",
                                    !.auto_install = auto_install,
                                    !.install_script = install_script,
                                    !.project_type = project_type]
    /\ UNCHANGED <<base_vars, workspace, probe, buffer_map, repository>>

\* BuildService.build, the install step: _install_dependencies is called
\* when auto_install or install_script is set, and runs the command that
\* _get_install_command returns, if any; its exit code is only logged.
install_dependencies(exit_code) ==
    /\ builder.pc = "install"
    /\ LET install_cmd == get_install_command(builder)
       IN builder' =
             IF (builder.auto_install \/ builder.install_script # "None")
                /\ install_cmd # "None"
             THEN [builder EXCEPT !.pc = "build", !.installed = install_cmd,
                                  !.install_exit = exit_code]
             ELSE [builder EXCEPT !.pc = "build"]
    /\ UNCHANGED <<base_vars, workspace, probe, buffer_map, repository>>

\* BuildService.build, the build script and the test of the output
\* directory; the archive is then made.
execute_build_script(exit_code, output_exists) ==
    /\ builder.pc = "build"
    /\ builder' = [builder EXCEPT
                      !.pc = "returned",
                      !.status = IF exit_code # 0 \/ ~output_exists
                                 THEN "failed" ELSE "success",
                      !.build_exit = exit_code,
                      !.output_exists = output_exists]
    /\ UNCHANGED <<base_vars, workspace, probe, buffer_map, repository>>

\* The next build.
build_returned ==
    /\ builder.pc = "returned"
    /\ builder' = NoBuilder
    /\ UNCHANGED <<base_vars, workspace, probe, buffer_map, repository>>

BuilderNext ==
    \/ \E auto_install \in BOOLEAN, install_script \in InstallScripts,
          project_type \in ProjectType :
          build_service(auto_install, install_script, project_type)
    \/ \E exit_code \in ExitCodes : install_dependencies(exit_code)
    \/ \E exit_code \in ExitCodes, output_exists \in BOOLEAN :
          execute_build_script(exit_code, output_exists)
    \/ build_returned

BuilderSpec == RequestInit /\ [][BuilderNext]_vars

----------------------------------------------------------------------------
(* The map of log buffers, for one deployment id (BufferMapSpec).  Caller 0
   is the DeploymentLogger made in the thread of the deployment task; the
   others are requests that open a stream, on the main event loop.
   get_log_buffer takes no lock and runs statement by statement; a LogBuffer
   object is known by the order of its making, 0 is none. *)

\* get_log_buffer: `if deployment_id not in _log_buffers`.  The logger is
\* made once, when the task starts.  The requests share the main event loop
\* and get_log_buffer does not await: one request is in it at a time.
get_log_buffer_check(c) ==
    /\ buffer_map.pc[c] = "idle"
    /\ c = 0 => buffer_map.task = "pending"
    /\ c # 0 => \A e \in BufferCallers \ {0} :
                   buffer_map.pc[e] \notin {"absent", "present"}
    /\ buffer_map' = [buffer_map EXCEPT
                         !.pc[c] = IF buffer_map.entry = 0
                                   THEN "absent" ELSE "present",
                         !.task = IF c = 0 THEN "running" ELSE @]
    /\ UNCHANGED <<base_vars, workspace, probe, builder, repository>>

\* get_log_buffer: `_log_buffers[deployment_id] = LogBuffer()`
get_log_buffer_insert(c) ==
    /\ buffer_map.pc[c] = "absent"
    /\ buffer_map' = [buffer_map EXCEPT !.made = @ + 1, !.entry = @ + 1,
                                        !.pc[c] = "present"]
    /\ UNCHANGED <<base_vars, workspace, probe, builder, repository>>

\* get_log_buffer: `return _log_buffers[deployment_id]`, which raises
\* KeyError when the entry was removed meanwhile.
get_log_buffer_return(c) ==
    /\ buffer_map.pc[c] = "present"
    /\ buffer_map' = [buffer_map EXCEPT
                         !.pc[c] = IF buffer_map.entry = 0
                                   THEN "raised" ELSE "returned",
                         !.buffer[c] = buffer_map.entry]
    /\ UNCHANGED <<base_vars, workspace, probe, builder, repository>>

\* execute_deployment after deploy() returned: remove_log_buffer.
task_remove_log_buffer ==
    /\ buffer_map.task = "running"
    /\ buffer_map.pc[0] = "returned"
    /\ buffer_map' = [buffer_map EXCEPT !.entry = 0, !.task = "ended"]
    /\ UNCHANGED <<base_vars, workspace, probe, builder, repository>>

BufferMapNext ==
    \/ \E c \in BufferCallers : get_log_buffer_check(c)
    \/ \E c \in BufferCallers : get_log_buffer_insert(c)
    \/ \E c \in BufferCallers : get_log_buffer_return(c)
    \/ task_remove_log_buffer

BufferMapSpec == RequestInit /\ [][BufferMapNext]_vars

----------------------------------------------------------------------------
(* The commit a FULL deployment records and the commit it builds
   (CommitSpec): the remote branch receives commits while the task runs.
   Commits are numbered in the order they reach the branch. *)

MaxCommits == 5

\* head_commit.hexsha and head_commit.message.strip() of a commit
hexsha(commit) == <<"hexsha", commit>>
message(commit) == <<"message", commit>>

commit_frame == UNCHANGED <<base_vars, workspace, probe, builder, buffer_map>>

\* Somebody pushes a commit to the branch.
remote_push ==
    /\ repository.head < MaxCommits
    /\ repository' = [repository EXCEPT !.head = @ + 1]
    /\ commit_frame

\* GitService.checkout_branch after a clone that is at commit `at`: fetch,
\* checkout, pull.  A pull that fails is logged as a warning and the clone
\* stays where it was.
checkout_branch(at, head, pulled) == IF pulled THEN head ELSE at

\* _clone_repo, git_context: service.clone() into a directory of its own.
\* A GitError leaves the stage as a DeploymentError.
git_context_clone(ok) ==
    /\ repository.pc = "idle"
    /\ repository' = [repository EXCEPT
           !.pc = IF ok THEN "cloned" ELSE "failed",
           !.repo = IF ok THEN repository.head ELSE 0]
    /\ commit_frame

\* _clone_repo, git_context: service.checkout_branch(branch)
git_context_checkout(ok, pulled) ==
    /\ repository.pc = "cloned"
    /\ repository' = [repository EXCEPT
           !.pc = IF ok THEN "checked_out" ELSE "failed",
           !.repo = IF ok
                    THEN checkout_branch(@, repository.head, pulled)
                    ELSE 0]
    /\ commit_frame

\* _clone_repo: get_info() of the clone; commit_hash and commit_message are
\* committed; the clone is removed when the context exits.
clone_repo_get_info ==
    /\ repository.pc = "checked_out"
    /\ repository' = [repository EXCEPT
           !.pc = "recorded",
           !.commit_hash = hexsha(repository.repo),
           !.commit_message = message(repository.repo),
           !.repo = 0]
    /\ commit_frame

\* _build_project: a new GitService clones the repository into
\* work_dir/build_<id>.
build_project_clone(ok) ==
    /\ repository.pc = "recorded"
    /\ repository' = [repository EXCEPT
           !.pc = IF ok THEN "build_cloned" ELSE "failed",
           !.source = IF ok THEN repository.head ELSE 0]
    /\ commit_frame

\* _build_project: git_service.checkout_branch(self.deployment.branch)
build_project_checkout(ok, pulled) ==
    /\ repository.pc = "build_cloned"
    /\ repository' = [repository EXCEPT
           !.pc = IF ok THEN "build_checked_out" ELSE "failed",
           !.source = IF ok
                      THEN checkout_branch(@, repository.head, pulled)
                      ELSE 0]
    /\ commit_frame

\* _build_project: BuildService(source_dir=work_dir).build() builds what the
\* work directory holds; the directory is removed afterwards.
build_project_build(ok) ==
    /\ repository.pc = "build_checked_out"
    /\ repository' = [repository EXCEPT
           !.pc = IF ok THEN "built" ELSE "failed",
           !.built = IF ok THEN repository.source ELSE 0,
           !.source = 0]
    /\ commit_frame

CommitNext ==
    \/ remote_push
    \/ \E ok \in BOOLEAN : git_context_clone(ok)
    \/ \E ok \in BOOLEAN, pulled \in BOOLEAN : git_context_checkout(ok, pulled)
    \/ clone_repo_get_info
    \/ \E ok \in BOOLEAN : build_project_clone(ok)
    \/ \E ok \in BOOLEAN, pulled \in BOOLEAN :
          build_project_checkout(ok, pulled)
    \/ \E ok \in BOOLEAN : build_project_build(ok)

CommitSpec == RequestInit /\ [][CommitNext]_vars

----------------------------------------------------------------------------
(* Properties *)

Status(d) == deployments[d].status
CancelRequested(d) == <<"DEPLOYMENT_CANCEL", d>> \in audit_logs
\* Tasks that are executing: deployment threads in a stage, rollbacks running.
Executing ==
    {d \in Ids : pc[d] \in StagePcs \cup {"rb_running", "rb_deploying"}}

\* C1: terminal statuses are absorbing: once the stored status of a deployment
\* is SUCCESS, FAILED or CANCELLED, no later step changes it.
C1_TerminalAbsorbing ==
    [][\A d \in Ids :
          (Exists(d) /\ Status(d) \in Terminal /\ deployments'[d] # NoRow)
              => deployments'[d].status = Status(d)]_vars

\* C2: cancellation is effective: when a cancel request has set CANCELLED
\* while the task is in a stage, the task's next step (the stage boundary)
\* starts no further stage and ends the task, the deployment ending CANCELLED
\* (or FAILED if the stage in progress raised) and not SUCCESS.
C2_CancelEffective ==
    [][\A d \in Ids :
          (Exists(d) /\ pc[d] \in StagePcs /\ Status(d) = "CANCELLED"
                /\ pc'[d] # pc[d])
              => (pc'[d] \in {"ended", "raised"}
                  /\ deployments'[d].status \in {"CANCELLED", "FAILED"})]_vars

\* C3: after any interleaving of acquire and release calls, the in-flight set
\* never holds more than max_concurrent ids.
C3_InFlightBounded == Cardinality(running_deployments) <= max_concurrent

\* C3 witness: the gate is full, an acquire was refused and a release returned.
C3_Witness ==
    /\ Cardinality(running_deployments) = max_concurrent
    /\ \E c \in Callers :
          /\ caller[c].op = "acquire" /\ caller[c].pc = "returned"
          /\ caller[c].result = FALSE
    /\ \E c \in Callers : caller[c].op = "release" /\ caller[c].pc = "returned"

\* C4: the tasks executing at the same time (full, restart-only and rollback
\* alike) never number more than max_concurrent, and every executing task
\* holds a slot of the gate.
C4_ExecutingBounded ==
    /\ Cardinality(Executing) <= max_concurrent
    /\ Executing \subseteq running_deployments

\* C5: every deployment that acquired a slot releases it: the id of a task that
\* has ended is not in the in-flight set, and every id in the in-flight set
\* eventually leaves it.
C5_SlotReleased ==
    /\ [](\A d \in Ids : pc[d] = "done" => d \notin running_deployments)
    /\ \A d \in Ids :
          (d \in running_deployments) ~> (d \notin running_deployments)

\* C5 witness: a task that acquired a slot ended FAILED and holds no slot.
C5_Witness ==
    \E d \in Ids :
        /\ pc[d] = "done" /\ Exists(d)
        /\ <<"DEPLOYMENT_CREATE", d>> \in audit_logs /\ d # 1
        /\ Status(d) = "FAILED"
        /\ d \notin running_deployments

\* The gate taken alone is quiescent: no call is in progress.
GateQuiescent == \A c \in Callers : caller[c].pc \in {"idle", "returned"}
AcquireCallers == {c \in Callers : caller[c].op = "acquire"}
Granted ==
    {c \in AcquireCallers : caller[c].pc = "returned" /\ caller[c].result = TRUE}

\* C6: acquire is an atomic check-and-insert: when k slots are free and n
\* concurrent acquire calls for distinct ids have returned (no release among
\* them), exactly min(k, n) returned true, and the in-flight set holds the
\* ids it held before and those of the calls that returned true, no others.
C6_AtomicAcquire ==
    (GateQuiescent /\ \A c \in Callers : caller[c].op # "release")
        => LET before == running_deployments \cap HeldIds
               k == max_concurrent - Cardinality(before)
           IN /\ Cardinality(Granted) = Min(k, Cardinality(AcquireCallers))
              /\ running_deployments =
                     before \cup {caller[c].id : c \in Granted}

\* C6 witness: more acquire calls than free slots: one granted, two refused.
C6_Witness ==
    /\ GateQuiescent
    /\ AcquireCallers = Callers
    /\ Granted # {}
    /\ Cardinality(Granted) < Cardinality(Callers)
    /\ running_deployments \cap HeldIds # {}

\* The row of d is inserted by create_deployment in this step.
Submitted(d) ==
    /\ ~Exists(d)
    /\ deployments'[d] # NoRow
    /\ deployments'[d].rollback_from = 0

\* C7: a deployment submitted while the gate is at capacity is stored QUEUED
\* with the "maximum concurrent deployments reached" message, is not added to
\* the in-flight set and gets no task; one submitted while a slot is free is
\* admitted and its task is started.
C7_QueuedAtCapacity ==
    [][\A d \in Ids :
          Submitted(d) =>
              IF Cardinality(running_deployments) >= max_concurrent
              THEN /\ deployments'[d].status = "QUEUED"
                   /\ deployments'[d].error_message = QueuedMessage
                   /\ running_deployments' = running_deployments
                   /\ pc'[d] = "none"
              ELSE /\ deployments'[d].status = "PENDING"
                   /\ d \in running_deployments'
                   /\ pc'[d] = "scheduled"]_vars

\* C7 witness: a QUEUED row beside a full gate and an admitted deployment.
C7_Witness ==
    \E q, d \in Ids :
        /\ Exists(q) /\ Status(q) = "QUEUED"
        /\ deployments[q].error_message = QueuedMessage
        /\ q \notin running_deployments /\ pc[q] = "none"
        /\ Cardinality(running_deployments) = max_concurrent
        /\ d \in running_deployments /\ pc[d] \in StagePcs

\* C8: a QUEUED deployment is never promoted: its status stays QUEUED unless it
\* is cancelled, it never enters the in-flight set and no task is run for it.
C8_NeverPromoted ==
    [][\A d \in Ids :
          (Exists(d) /\ pc[d] = "none")
              => /\ pc'[d] = "none"
                 /\ d \notin running_deployments'
                 /\ deployments'[d].status \in {Status(d), "CANCELLED"}
                 /\ Status(d) \in {"QUEUED", "CANCELLED"}]_vars

\* C8 witness: a row still QUEUED after the slot was released and a later
\* submission was admitted.
C8_Witness ==
    \E q, d, e \in Ids :
        /\ Exists(q) /\ Status(q) = "QUEUED" /\ pc[q] = "none"
        /\ d < q /\ pc[d] = "done"
        /\ q < e /\ pc[e] \in StagePcs /\ e \in running_deployments

\* The status that follows s when no stage fails and nobody cancels.
NextStatus(s, hc) ==
    CASE s = "PENDING" -> "CLONING"
      [] s = "CLONING" -> "BUILDING"
      [] s = "BUILDING" -> "DEPLOYING"
      [] s = "DEPLOYING" -> IF hc THEN "HEALTH_CHECKING" ELSE "SUCCESS"
      [] s = "HEALTH_CHECKING" -> "SUCCESS"
      [] OTHER -> "none"

\* A FULL deployment (not a rollback) that was admitted.
FullTask(d) ==
    /\ Exists(d)
    /\ deployments[d].deployment_type = "FULL"
    /\ deployments[d].rollback_from = 0
    /\ pc[d] # "none"

\* The status a task position stands for.
StatusAt(p) ==
    CASE p = "scheduled" -> "PENDING"
      [] p = "cloning" -> "CLONING"
      [] p = "building" -> "BUILDING"
      [] p = "deploying" -> "DEPLOYING"
      [] p = "health_checking" -> "HEALTH_CHECKING"
      [] OTHER -> "SUCCESS"

\* C9: a FULL deployment in which no stage fails and no cancel is requested
\* visits PENDING, CLONING, BUILDING, DEPLOYING, then HEALTH_CHECKING iff the
\* project enables health checks, then SUCCESS: every change of status goes to
\* the next status of this order, the status is that of the stage the task is
\* in, and the task ends in SUCCESS.
C9_StatusOrder ==
    /\ [][\A d \in Ids :
             (FullTask(d) /\ ~CancelRequested(d)' /\ deployments'[d] # NoRow
                  /\ deployments'[d].status # Status(d)
                  /\ deployments'[d].status # "FAILED")
                 => deployments'[d].status =
                       NextStatus(Status(d),
                                  deployments[d].health_check_enabled)]_vars
    /\ [](\A d \in Ids :
             (FullTask(d) /\ ~CancelRequested(d)
                  /\ pc[d] \in StagePcs \cup {"scheduled", "ended"})
                 => Status(d) = StatusAt(pc[d]))

\* C9 witness: a FULL deployment of a project with health checks ended in
\* SUCCESS with no cancel request.
C9_Witness ==
    \E d \in Ids :
        /\ FullTask(d) /\ d # 1
        /\ deployments[d].health_check_enabled
        /\ ~CancelRequested(d)
        /\ pc[d] = "done" /\ Status(d) = "SUCCESS"

\* C10: in every reachable state the stored progress of every deployment is
\* the fixed mapping of its stored status (PENDING=0, CLONING=10, BUILDING=30,
\* UPLOADING=60, DEPLOYING=80, RESTARTING=90, HEALTH_CHECKING=95, SUCCESS=100,
\* FAILED=0, CANCELLED=0).
C10_ProgressOfStatus ==
    \A d \in Ids :
        Exists(d) => deployments[d].progress = progress_map(Status(d))

\* C11: every deployment or rollback task that started executing ends with
\* the deployment in SUCCESS, FAILED or CANCELLED: once deploy() or rollback()
\* has returned or raised, the stored status is terminal.
C11_EndsTerminal ==
    \A d \in Ids :
        (Exists(d) /\ pc[d] \in {"ended", "raised", "released", "done"})
            => Status(d) \in Terminal

\* C12: a cancel request for a deployment in SUCCESS, FAILED or CANCELLED is
\* rejected and changes nothing, and the status of a deployment makes the
\* transition into CANCELLED at most once: after a cancel request has been
\* accepted for it, no step takes it from another status to CANCELLED.
C12_CancelledOnce ==
    [][\A d \in Ids :
          Exists(d) =>
              /\ (cancel_requests' # cancel_requests
                      /\ deployments'[d] # deployments[d])
                     => Status(d) \notin Terminal
              /\ (CancelRequested(d) /\ Status(d) # "CANCELLED")
                     => deployments'[d].status # "CANCELLED"]_vars

\* The servers of the selected groups, group after group.
RECURSIVE servers_of(_)
servers_of(groups) ==
    IF groups = <<>> THEN <<>> ELSE Head(groups) \o servers_of(Tail(groups))

IsActive(server) == server.is_active
IsDeploy(event) == event[1] = "deploy"
NamesOf(servers) == [k \in 1..Len(servers) |-> servers[k].name]
ActiveNames == NamesOf(SelectSeq(servers_of(server_groups), IsActive))
Deployed ==
    LET events == SelectSeq(contacted, IsDeploy)
    IN [k \in 1..Len(events) |-> events[k][2]]
IsPrefix(s, t) == Len(s) <= Len(t) /\ \A k \in 1..Len(s) : s[k] = t[k]

IsProbe(event) == event[1] = "probe"
Probed ==
    LET events == SelectSeq(contacted, IsProbe)
    IN [k \in 1..Len(events) |-> events[k][2]]

UploadChanges(row) ==
    {<<"PENDING", "DEPLOYING">>, <<"PENDING", "FAILED">>,
     <<"DEPLOYING", "FAILED">>, <<"HEALTH_CHECKING", "FAILED">>,
     <<"HEALTH_CHECKING", "SUCCESS">>}
        \cup (IF row.health_check_enabled
              THEN {<<"DEPLOYING", "HEALTH_CHECKING">>}
              ELSE {<<"DEPLOYING", "SUCCESS">>})

Issued(command) == \E k \in 1..Len(remote.issued) : remote.issued[k] = command
\* The frontend step ended by raising after the unzip exited non-zero.
UnzipFailed == remote.step = "failed" /\ Issued("unzip") /\ remote.stderr # ""

Expected(s) == log_pc.snapshot[s] \o log_pc.later[s]

\* C20: the queue of a subscriber holds the entries that were in the ring
\* when it subscribed, then the entries appended afterwards, in the order of
\* their appending and each once; when no append is under way none is missing.
C20_SubscriberStream ==
    \A s \in Subscribers :
        log_pc.subscribe[s] = "subscribed" =>
            /\ IsPrefix(log_buffer.queues[s], Expected(s))
            /\ log_pc.appender = "idle" =>
                   log_buffer.queues[s] = Expected(s)

\* C27: once a deployment task or a rollback task has ended and its deployment
\* is SUCCESS, FAILED or CANCELLED, the process-wide buffer map holds no
\* buffer for the deployment.
C27_BufferRemoved ==
    \A d \in Ids :
        (pc[d] \in {"released", "done"} /\ Status(d) \in Terminal)
            => d \notin log_buffers

\* The entries of a sequence are in the order in which the logger calls that
\* made them were made.
InCallOrder(seq) ==
    \A i, j \in 1..Len(seq) : i < j => seq[i].content < seq[j].content

\* C21: the entries of a deployment task are in the ring, and in the
\* deployment_logs table by ascending id, in the order in which they were
\* produced: a line streamed from a command comes before the entry that
\* reports the exit code of the command.
C21_ProducedOrder ==
    /\ InCallOrder(log_buffer.buffer)
    /\ InCallOrder(deployment_logs)

\* C22: when the task of a deployment has ended and the deployment is SUCCESS,
\* FAILED or CANCELLED, every entry logged for it is a row of the
\* deployment_logs table and the pending list of the batch writer is empty.
C22_FlushedAtEnd ==
    \A d \in Ids :
        (runs_on_loop(d) /\ pc[d] \in {"released", "done"}
            /\ Status(d) \in Terminal)
        => /\ batch_writer.pending_logs = <<>>
           /\ Len(deployment_logs) = event_loop.clock

\* C23: with commits that return, the pending list holds fewer than
\* batch_size entries after every add_log; the rows written followed by the
\* pending entries are the entries handed to add_log, each once, in the order
\* they were handed over, with the timestamp _log captured.
C23_BatchedWrites ==
    LET written == deployment_logs \o rows_of(batch_writer.pending_logs)
        n == Min(Len(written), Len(log_buffer.buffer))
    IN /\ Len(batch_writer.pending_logs) < BatchSize
       /\ Len(written) = event_loop.clock
       /\ \A i \in 1..Len(written) : written[i].created_at = i
       /\ Last(written, n) = rows_of(Last(log_buffer.buffer, n))

\* C23 witness: a batch has been written and a later entry is pending.
C23_Witness ==
    /\ deployment_logs # <<>>
    /\ batch_writer.pending_logs # <<>>

\* C24: an exception raised by the commit of a log flush does not fail the
\* deployment: deploy() never records it as the deployment's failure.
C24_WriteFailureHarmless ==
    \A d \in Ids : Exists(d) => deployments[d].error_message # WriteFailed

\* C26: the ring never holds more than max_size entries; after n appends it
\* holds the most recent min(n, max_size) entries in append order, so an
\* append to a full ring drops the oldest entry and goes through.
C26_RingKeepsNewest ==
    LET n == log_pc.entry
        kept == Min(n, MaxRing)
    IN /\ Len(log_buffer.buffer) <= MaxRing
       /\ log_buffer.buffer = [i \in 1..kept |-> n - kept + i]

\* C26 witness: more entries were appended than the ring holds.
C26_Witness ==
    /\ log_pc.entry > MaxRing
    /\ Len(log_buffer.buffer) = MaxRing

\* C25: a client that polls with the max_log_id of the response before
\* receives batches in ascending id order that are disjoint and contiguous,
\* also after a response without entries; a batch asked for with since_id
\* holds at most 100 entries, all with an id above since_id.
C25_PollingContiguous ==
    /\ \A i \in 1..(Len(poller.received) - 1) :
           poller.received[i + 1] = poller.received[i] + 1
    /\ poller.asked # <<>>
       => /\ Len(poller.logs) <= IncrementLimit
          /\ \A i \in 1..Len(poller.logs) : poller.logs[i] > poller.asked[1]

\* A request the claim is about: its source deployment (of a rollback), its
\* project and its server groups exist, and no group is selected or some
\* selected group is of another environment than the project.
EnvironmentMismatch(r) ==
    /\ r.endpoint \in {"create", "rollback"}
    /\ r.project # "absent"
    /\ \A i \in 1..Len(r.groups) : r.groups[i] # "absent"
    /\ r.groups = <<>> \/ \E i \in 1..Len(r.groups) : r.groups[i] # r.project

\* C28: a deployment request or a rollback request that selects no server
\* group, or a group of another environment than the project, is answered
\* 400, and the step creates no row, writes no audit record, acquires no slot
\* and starts no task.
C28_MismatchRejected ==
    [][(response' # response /\ EnvironmentMismatch(response')
          /\ (response'.endpoint = "rollback"
                => /\ Exists(response'.source)
                   /\ deployments[response'.source].artifacts))
       => /\ response'.code = 400
          /\ UNCHANGED <<deployments, next_id, audit_logs,
                         running_deployments, pc>>]_vars

IsRollback(d) == Exists(d) /\ deployments[d].rollback_from # 0

\* C29: a rollback task never sets CLONING or BUILDING; when the source has
\* no artifact record or the file is missing it ends FAILED with no server
\* contacted; and it fails only for a missing artifact or because the upload
\* or the extraction on a server failed, never at the restart script.
C29_RollbackFanOutOnly ==
    [][\A d \in Ids :
          (IsRollback(d) /\ deployments'[d] # deployments[d])
          => /\ deployments'[d].status \notin {"CLONING", "BUILDING"}
             /\ deployments'[d].error_message \in
                    {"No artifact found for deployment",
                     "Artifact file not found"}
                => /\ deployments'[d].status = "FAILED"
                   /\ contacted' = <<>>
             /\ (pc[d] = "rb_deploying"
                    /\ deployments'[d].status = "FAILED")
                => failures' \cap {"connect_failed", "upload_failed",
                                   "extract_failed"} # {}]_vars

\* C30: after a successful build-package for a project whose reaper could
\* unlink what it chose, exactly one file on disk is recorded for the
\* project, the new one; the reaper deleted neither the new file nor a file
\* that is not recorded for the project.
C30_OneArtifactLeft ==
    (artifacts_dir.built # <<>> /\ artifacts_dir.failed = {})
    => LET project_id == artifacts_dir.built[1]
           new == artifacts_dir.built[2]
           recorded == project_file_paths(artifacts_dir, project_id)
       IN /\ artifacts_dir.files \cap recorded = {new}
          /\ new \notin artifacts_dir.deleted
          /\ artifacts_dir.deleted \subseteq recorded

\* C31: when the artifact record of a successful build is created, the file
\* at its path exists and holds what the stored digest was computed from,
\* and no two builds wrote the same artifact path.
C31_ArtifactMatchesRecord ==
    /\ \A b \in 1..Len(artifacts_dir.threads) :
          artifacts_dir.threads[b].pc = "recorded"
          => /\ artifacts_dir.threads[b].found # 0
             /\ artifacts_dir.threads[b].found
                    = artifacts_dir.threads[b].checksum
    /\ \A a, b \in 1..Len(artifacts_dir.threads) :
          a # b => artifacts_dir.threads[a].artifact_path
                      # artifacts_dir.threads[b].artifact_path

\* C32: once a task is past CLONING no credential helper, key file or clone
\* of that stage remains, and once it is past BUILDING, however the stage
\* ended, none of that stage remains either and work_dir/build_<id> is
\* removed.
C32_StagesLeaveNothing ==
    /\ workspace.stage # "CLONING"
       => \A f \in workspace.files : f[3] # "CLONING"
    /\ workspace.pc = "idle" => workspace.files = {}

Attempts(done) == SelectSeq(done, LAMBDA e : e # "sleep")

C34_ReleaseIdempotent ==
    [][\A d \in Ids :
          /\ (pc[d] \in {"ended", "raised"} /\ pc'[d] = "released")
             => /\ running_deployments' = running_deployments \ {d}
                /\ d \notin running_deployments'
          /\ (pc[d] = "released" /\ pc'[d] = "done")
             => /\ d \notin running_deployments
                /\ running_deployments' = running_deployments]_vars

\* Reached: both releases of a task were made while another deployment held
\* a slot, which it still holds.
C34_Witness ==
    \E d, e \in Ids :
        /\ d # e /\ d > 1
        /\ pc[d] = "done" /\ d \notin running_deployments
        /\ <<"DEPLOYMENT_CREATE", d>> \in audit_logs
        /\ e \in running_deployments
        /\ pc[e] \in StagePcs

\* C35: the install command the builder runs is the explicit command when
\* one is set, whether or not auto_install is set; otherwise the default of
\* the project kind when auto_install is set (none for a backend) and none
\* when it is not; and the build result is success exactly when the build
\* command exits 0 and the output directory exists, whatever the install
\* step did.
C35_InstallCommand ==
    /\ builder.pc \in {"build", "returned"}
       => builder.installed =
             IF builder.install_script # "None" THEN builder.install_script
             ELSE IF ~builder.auto_install THEN "None"
             ELSE CASE builder.project_type = "frontend" -> "npm install"
                    [] builder.project_type = "java"
                         -> "mvn dependency:resolve"
                    [] OTHER -> "None"
    /\ builder.pc = "returned"
       => (builder.status = "success"
             <=> builder.build_exit = 0 /\ builder.output_exists)

\* C36: in the RESTART_ONLY fan-out, once the restart has failed on a server
\* no later server is restarted, and the deployment ends FAILED.
C36_RestartHaltsOnFailure ==
    [][\A d \in Ids :
          pc[d] = "restarting"
          => /\ (Len(contacted') > Len(contacted))
                => loop.failed_servers = <<>>
             /\ (loop.failed_servers # <<>> /\ pc'[d] # pc[d])
                => deployments'[d].status = "FAILED"]_vars

\* C37: on a server that a rollback reached and uploaded the artifact to,
\* the remote operations of the rollback are those of the forward
\* deployment of the same project: the same places, upload, extraction,
\* frontend backup and swap, and restart command.
C37_RollbackReplaysDeploy ==
    \A d \in Ids :
        (IsRollback(d) /\ pc[d] = "done" /\ remote.issued # <<>>)
        => remote.issued = deploy_operations(project.project_type,
                                             project.restart_script_path)

\* C38: a stream is attached to the buffer its producer writes to: once the
\* logger of the deployment holds its buffer, every stream that holds a
\* buffer for the id holds that one, and before the logger is made a stream
\* holds the buffer of the map, which the logger will get.
C38_StreamsShareBuffer ==
    \A c \in BufferCallers \ {0} :
        buffer_map.pc[c] = "returned"
        => /\ buffer_map.pc[0] = "returned"
              => buffer_map.buffer[c] = buffer_map.buffer[0]
           /\ buffer_map.pc[0] = "idle"
              => buffer_map.buffer[c] = buffer_map.entry

\* C39: when the event loop of a deployment task is closed, no logger call
\* made on it, streamed lines included, is left in a task that did not run or
\* did not finish: every call is an entry handed to the batch writer (a row
\* written or a pending entry).
C39_StreamedLinesLogged ==
    LET written == deployment_logs \o rows_of(batch_writer.pending_logs)
    IN event_loop.pc = "closed"
       => /\ event_loop.ready = <<>>
          /\ event_loop.waiting = <<>>
          /\ \A c \in 1..event_loop.calls :
                \E i \in 1..Len(written) : written[i].content = c

\* C40: the commit hash and the commit message recorded on a FULL deployment
\* are those of the commit that its build stage built.
C40_RecordedCommitIsBuilt ==
    repository.pc = "built"
    => /\ repository.commit_hash = hexsha(repository.built)
       /\ repository.commit_message = message(repository.built)
====
